---- MODULE Spec2Model ----
(***************************************************************************)
(* Inbound document intake and ledger pipeline of resume-sorter-backend    *)
(* (src/src/server.js, TypeScript part, lines 1147 onward).                 *)
(*                                                                         *)
(* One run of processInboundDoc is a sequence of steps, one per remote     *)
(* call (customer directory, ledger spreadsheet, scorer, audit table,      *)
(* mail).  Runs of different submissions interleave at these calls.  The   *)
(* ledger of the tenant is the sequence of rows A2:H... of its sheet.      *)
(* The three inbound handlers (inbound-file, inbound-r2, resend-inbound)   *)
(* check the file name against the allowlist and then start a run.         *)
(* The customer directory is written by customer setup, the Stripe webhook *)
(* and the nightly job, and read through a cache held for 60 seconds.      *)
(* The pure functions (billing gate, classifier, resolution) are also      *)
(* called on their own, on inputs drawn from bounded sets.                 *)
(* getCustomersCached is also modelled call by call, with a clock, its     *)
(* await and the invalidation of the cache (SpecCache).                    *)
(***************************************************************************)
EXTENDS Integers, Sequences, FiniteSets, TLC

\* ------------------------------------------------------------------ bounds
\* total number of submissions in one behaviour
MaxRuns == 2
\* run slots: at most two runs are in flight at the same time
Runs == {1, 2}

\* ------------------------------------------------------- program constants
MAX_EXTRACTED_CHARS == 120000
MAX_OPENAI_CHARS == 60000
\* classifyDocTypeFromText: texts with fewer letters are NON_RESUME
MinLetters == 80
\* processInboundDoc: the scoring stage needs more than this many characters
MinAiTrimLen == 40
\* processInboundDoc: shorter texts are a too_short skip
MinScoreLen == 120

\* ------------------------------------------------------------------ strings
\* A string is a sequence of one-character strings.
LowerChar(c) ==
  CASE c = "A" -> "a" [] c = "B" -> "b" [] c = "C" -> "c" [] c = "D" -> "d"
    [] c = "E" -> "e" [] c = "F" -> "f" [] c = "G" -> "g" [] c = "H" -> "h"
    [] c = "I" -> "i" [] c = "J" -> "j" [] c = "K" -> "k" [] c = "L" -> "l"
    [] c = "M" -> "m" [] c = "N" -> "n" [] c = "O" -> "o" [] c = "P" -> "p"
    [] c = "Q" -> "q" [] c = "R" -> "r" [] c = "S" -> "s" [] c = "T" -> "t"
    [] c = "U" -> "u" [] c = "V" -> "v" [] c = "W" -> "w" [] c = "X" -> "x"
    [] c = "Y" -> "y" [] c = "Z" -> "z" [] OTHER -> c

toLowerCase(s) == [i \in 1..Len(s) |-> LowerChar(s[i])]

RECURSIVE trimStartOf(_, _)
trimStartOf(s, blank) ==
  IF s # <<>> /\ Head(s) = blank THEN trimStartOf(Tail(s), blank) ELSE s

RECURSIVE trimEndOf(_, _)
trimEndOf(s, blank) ==
  IF s # <<>> /\ s[Len(s)] = blank
    THEN trimEndOf(SubSeq(s, 1, Len(s) - 1), blank)
    ELSE s

\* String.prototype.trim on a string of characters
trim(s) == trimEndOf(trimStartOf(s, " "), " ")

\* safeStr(v) = (v ?? "").toString().trim()
safeStr(s) == trim(s)

\* ------------------------------------------------------------ CSV cells
\* A notes cell or token cell is a string of items separated by ", ".  An item
\* (a note, a token) is one element of the sequence, a tuple; Comma and Space
\* are the separator characters.
Comma == <<",">>
Space == <<" ">>

RECURSIVE joinCsv(_)
\* parts.join(", ")
joinCsv(parts) ==
  IF parts = <<>> THEN <<>>
  ELSE IF Len(parts) = 1 THEN <<parts[1]>>
  ELSE <<parts[1], Comma, Space>> \o joinCsv(Tail(parts))

RECURSIVE splitComma(_, _)
\* cell.split(","): the pieces between commas; cur is the piece being read
splitComma(cell, cur) ==
  IF cell = <<>> THEN <<cur>>
  ELSE IF Head(cell) = Comma THEN <<cur>> \o splitComma(Tail(cell), <<>>)
  ELSE splitComma(Tail(cell), Append(cur, Head(cell)))

\* .split(",").map(s => s.trim()): each piece without surrounding blanks
splitTrim(cell) ==
  LET pieces == splitComma(cell, <<>>)
  IN  [i \in 1..Len(pieces) |-> trimEndOf(trimStartOf(pieces[i], Space), Space)]

\* .split(",").map(trim).filter(Boolean): the non-empty items of a cell.  A
\* piece of this model holds one item.
parseCsv(cell) ==
  LET pieces == splitTrim(cell)
      keep == SelectSeq(pieces, LAMBDA p : p # <<>>)
  IN  [i \in 1..Len(keep) |-> keep[i][1]]

includes(seq, x) == \E i \in 1..Len(seq) : seq[i] = x

\* --------------------------------------------------------------- billing
S_trial == <<"t", "r", "i", "a", "l">>
S_trialing == <<"t", "r", "i", "a", "l", "i", "n", "g">>
S_active == <<"a", "c", "t", "i", "v", "e">>
S_trial_ended == <<"t", "r", "i", "a", "l", "_", "e", "n", "d", "e", "d">>
S_past_due == <<"p", "a", "s", "t", "_", "d", "u", "e">>
S_canceled == <<"c", "a", "n", "c", "e", "l", "e", "d">>
S_unpaid == <<"u", "n", "p", "a", "i", "d">>
\* the same status as a sheet cell may hold it: other case, blanks around it
S_PastDueCell == <<" ", "P", "a", "s", "t", "_", "D", "u", "e", " ">>

S_billing_unknown ==
  <<"b", "i", "l", "l", "i", "n", "g", "_", "u", "n", "k", "n", "o", "w", "n">>
S_cancelled == <<"c", "a", "n", "c", "e", "l", "l", "e", "d">>
S_past_due_blank == <<"p", "a", "s", "t", " ", "d", "u", "e">>
S_paused == <<"p", "a", "u", "s", "e", "d">>

UpperLetters ==
  {"A", "B", "C", "D", "E", "F", "G", "H", "I", "J", "K", "L", "M", "N", "O",
   "P", "Q", "R", "S", "T", "U", "V", "W", "X", "Y", "Z"}

UpperChar(c) ==
  IF \E u \in UpperLetters : LowerChar(u) = c
    THEN CHOOSE u \in UpperLetters : LowerChar(u) = c
    ELSE c

toUpperCase(s) == [i \in 1..Len(s) |-> UpperChar(s[i])]

\* the ways a sheet cell may spell a word: as it is, in capitals, with a
\* capital first letter, with blanks around it
Spellings(w) ==
  {w, toUpperCase(w), <<" ">> \o w, w \o <<" ", " ">>,
   <<" ">> \o toUpperCase(w) \o <<" ">>,
   <<" ">> \o [i \in 1..Len(w) |-> IF i = 1 THEN UpperChar(w[i]) ELSE w[i]]
     \o <<" ">>}

\* billing statuses given to isProcessingAllowed
StatusInputs ==
  UNION { Spellings(w) :
            w \in {S_trial, S_trialing, S_active, S_trial_ended, S_past_due,
                   S_canceled, S_unpaid, S_billing_unknown, S_cancelled,
                   S_past_due_blank, S_paused, <<>>} }

isProcessingAllowedCaseSensitive(billingStatusRaw) ==
  LET s == safeStr(billingStatusRaw)
  IN  IF s \in {S_trial_ended, S_past_due, S_canceled, S_unpaid}
        THEN [allowed |-> FALSE, reason |-> s]
        ELSE [allowed |-> TRUE, reason |-> <<>>]

isProcessingAllowedBlocksNothing(billingStatusRaw) ==
  [allowed |-> TRUE, reason |-> <<>>]

isProcessingAllowed(billingStatusRaw) ==
  LET s == toLowerCase(safeStr(billingStatusRaw))
  IN  IF s = <<>> THEN [allowed |-> TRUE, reason |-> <<>>]
      ELSE IF s = S_trial \/ s = S_trialing THEN [allowed |-> TRUE, reason |-> <<>>]
      ELSE IF s = S_active THEN [allowed |-> TRUE, reason |-> <<>>]
      ELSE IF s = S_trial_ended THEN [allowed |-> FALSE, reason |-> S_trial_ended]
      ELSE IF s = S_past_due THEN [allowed |-> FALSE, reason |-> S_past_due]
      ELSE IF s = S_canceled THEN [allowed |-> FALSE, reason |-> S_canceled]
      ELSE IF s = S_unpaid THEN [allowed |-> FALSE, reason |-> S_unpaid]
      ELSE [allowed |-> TRUE, reason |-> <<>>]

\* -------------------------------------------------------------- classifier
\* the characters the pattern [a-z] accepts
LowerLetters ==
  {"a", "b", "c", "d", "e", "f", "g", "h", "i", "j", "k", "l", "m", "n", "o",
   "p", "q", "r", "s", "t", "u", "v", "w", "x", "y", "z"}

\* text.includes(k)
includesText(text, k) ==
  \E i \in 1..(Len(text) - Len(k) + 1) :
    \A j \in 1..Len(k) : text[i + j - 1] = k[j]

\* keys.some(k => text.includes(k))
hasAny(text, keys) == \E j \in 1..Len(keys) : includesText(text, keys[j])

RECURSIVE countAny(_, _)
\* keys.reduce((n, k) => (text.includes(k) ? n + 1 : n), 0)
countAny(text, keys) ==
  IF keys = <<>> THEN 0
  ELSE LET n == countAny(text, SubSeq(keys, 1, Len(keys) - 1))
       IN  IF includesText(text, keys[Len(keys)]) THEN n + 1 ELSE n

resumeStrong ==
  <<
    <<"p", "r", "o", "f", "e", "s", "s", "i", "o", "n", "a", "l", " ", "s",
      "u", "m", "m", "a", "r", "y">>,
    <<"w", "o", "r", "k", " ", "e", "x", "p", "e", "r", "i", "e", "n", "c",
      "e">>,
    <<"e", "m", "p", "l", "o", "y", "m", "e", "n", "t", " ", "h", "i", "s",
      "t", "o", "r", "y">>,
    <<"e", "x", "p", "e", "r", "i", "e", "n", "c", "e">>,
    <<"e", "d", "u", "c", "a", "t", "i", "o", "n">>,
    <<"s", "k", "i", "l", "l", "s">>,
    <<"c", "e", "r", "t", "i", "f", "i", "c", "a", "t", "i", "o", "n", "s">>,
    <<"c", "e", "r", "t", "i", "f", "i", "c", "a", "t", "i", "o", "n">>,
    <<"p", "r", "o", "j", "e", "c", "t", "s">>,
    <<"o", "b", "j", "e", "c", "t", "i", "v", "e">>,
    <<"c", "u", "r", "r", "i", "c", "u", "l", "u", "m", " ", "v", "i", "t",
      "a", "e">>,
    <<"r", "e", "s", "u", "m", "e">>,
    <<"l", "i", "n", "k", "e", "d", "i", "n">>
  >>

resumeWeak ==
  <<
    <<"r", "e", "s", "p", "o", "n", "s", "i", "b", "i", "l", "i", "t", "i",
      "e", "s">>,
    <<"a", "c", "h", "i", "e", "v", "e", "m", "e", "n", "t", "s">>,
    <<"a", "c", "c", "o", "m", "p", "l", "i", "s", "h", "m", "e", "n", "t",
      "s">>,
    <<"r", "e", "f", "e", "r", "e", "n", "c", "e", "s">>,
    <<"t", "e", "c", "h", "n", "i", "c", "a", "l", " ", "s", "k", "i", "l",
      "l", "s">>,
    <<"c", "o", "r", "e", " ", "c", "o", "m", "p", "e", "t", "e", "n", "c",
      "i", "e", "s">>,
    <<"p", "r", "o", "f", "i", "l", "e">>,
    <<"s", "u", "m", "m", "a", "r", "y">>,
    <<"h", "i", "g", "h", " ", "s", "c", "h", "o", "o", "l">>,
    <<"u", "n", "i", "v", "e", "r", "s", "i", "t", "y">>,
    <<"c", "o", "l", "l", "e", "g", "e">>,
    <<"b", "a", "c", "h", "e", "l", "o", "r">>,
    <<"d", "i", "p", "l", "o", "m", "a">>
  >>

nonResumeStrong ==
  <<
    <<"i", "n", "v", "o", "i", "c", "e">>,
    <<"a", "m", "o", "u", "n", "t", " ", "d", "u", "e">>,
    <<"s", "u", "b", "t", "o", "t", "a", "l">>,
    <<"t", "o", "t", "a", "l", " ", "d", "u", "e">>,
    <<"p", "a", "y", "m", "e", "n", "t">>,
    <<"b", "i", "l", "l", " ", "t", "o">>,
    <<"s", "h", "i", "p", " ", "t", "o">>,
    <<"p", "u", "r", "c", "h", "a", "s", "e", " ", "o", "r", "d", "e", "r">>,
    <<"p", "o", " ", "n", "u", "m", "b", "e", "r">>,
    <<"s", "t", "a", "t", "e", "m", "e", "n", "t", " ", "o", "f", " ", "a",
      "c", "c", "o", "u", "n", "t">>,
    <<"t", "e", "r", "m", "s", " ", "a", "n", "d", " ", "c", "o", "n", "d",
      "i", "t", "i", "o", "n", "s">>
  >>

\* the decision of classifyDocTypeFromText from the lower-cased text
classifyStrictThreshold(text) ==
  LET letters == Cardinality({i \in 1..Len(text) : text[i] \in LowerLetters})
      resumeScore == countAny(text, resumeStrong) * 3 + countAny(text, resumeWeak)
      nonResumeScore == countAny(text, nonResumeStrong) * 3
  IN  IF letters < MinLetters THEN "NON_RESUME"
      ELSE IF hasAny(text, resumeStrong) /\ nonResumeScore < resumeScore THEN "RESUME"
      ELSE IF resumeScore >= 3 /\ nonResumeScore < resumeScore THEN "RESUME"
      ELSE "NON_RESUME"

classifyStrongAlone(text) ==
  LET letters == Cardinality({i \in 1..Len(text) : text[i] \in LowerLetters})
      resumeScore == countAny(text, resumeStrong) * 3 + countAny(text, resumeWeak)
      nonResumeScore == countAny(text, nonResumeStrong) * 3
  IN  IF letters < MinLetters THEN "NON_RESUME"
      ELSE IF hasAny(text, resumeStrong) THEN "RESUME"
      ELSE IF resumeScore >= 3 /\ nonResumeScore <= resumeScore THEN "RESUME"
      ELSE "NON_RESUME"

classifyLowerCased(text) ==
  LET letters == Cardinality({i \in 1..Len(text) : text[i] \in LowerLetters})
      resumeScore == countAny(text, resumeStrong) * 3 + countAny(text, resumeWeak)
      nonResumeScore == countAny(text, nonResumeStrong) * 3
  IN  IF letters < MinLetters THEN "NON_RESUME"
      ELSE IF hasAny(text, resumeStrong) /\ nonResumeScore < resumeScore THEN "RESUME"
      ELSE IF resumeScore >= 3 /\ nonResumeScore <= resumeScore THEN "RESUME"
      ELSE IF nonResumeScore >= 3 /\ nonResumeScore > resumeScore THEN "NON_RESUME"
      ELSE "NON_RESUME"

classifyDocTypeFromText(textRaw) == classifyLowerCased(toLowerCase(textRaw))

\* bound: phrases in one text
MaxPieces == 3

\* phrases a document may hold
Pieces ==
  <<
    <<"S", "k", "i", "l", "l", "s">>,
    <<"P", "r", "o", "f", "e", "s", "s", "i", "o", "n", "a", "l", " ", "S",
      "u", "m", "m", "a", "r", "y">>,
    <<"C", "E", "R", "T", "I", "F", "I", "C", "A", "T", "I", "O", "N", "S">>,
    <<"c", "o", "l", "l", "e", "g", "e">>,
    <<"p", "r", "o", "f", "i", "l", "e">>,
    <<"r", "e", "f", "e", "r", "e", "n", "c", "e", "s">>,
    <<"I", "n", "v", "o", "i", "c", "e">>,
    <<"a", "m", "o", "u", "n", "t", " ", "d", "u", "e">>,
    <<"p", "a", "y", "m", "e", "n", "t">>,
    <<"b", "i", "l", "l", " ", "t", "o">>
  >>

\* lengths of the run of other letters a text starts with
FillerLens == {0, 73, 74}

RECURSIVE TextOf(_, _)
\* a text: n letters "z", then the phrases of Pieces with a number in picked,
\* each after a blank
TextOf(n, picked) ==
  IF picked = {}
    THEN [i \in 1..n |-> "z"]
    ELSE LET last == CHOOSE x \in picked : \A y \in picked : y <= x
         IN  TextOf(n, picked \ {last}) \o <<" ">> \o Pieces[last]

Texts ==
  { TextOf(n, picked) :
      n \in FillerLens,
      picked \in {q \in SUBSET (1..Len(Pieces)) : Cardinality(q) <= MaxPieces} }

\* ------------------------------------------------------- customer directory
\* e-mail addresses, as character sequences
E_intakeA == <<"a", "@", "d", "d">>
E_intakeACell == <<"A", "@", "d", "d", " ">>
E_reportA == <<"r", "@", "a", "a">>
E_unknown == <<"z", "@", "d", "d">>
\* the address as a sender may type it
E_intakeATyped == <<"A", "@", "D", "d">>

\* days, as the ISO dates of the sheets; a later day is further right
Days == <<"2026-01-01", "2026-01-02", "2026-02-01">>

NoMatch == [customerId |-> "", intakeEmail |-> <<>>, adminEmail |-> <<>>,
            status |-> <<>>, tallySheetId |-> "", stripeCustomerId |-> "",
            trialEndsAtISO |-> ""]

\* one CustomerRow of readCustomersFromMasterSheet
CustomerRow(status) ==
  [customerId |-> "custA", intakeEmail |-> E_intakeACell, adminEmail |-> E_reportA,
   status |-> status, tallySheetId |-> "sheetA", stripeCustomerId |-> "cus_A",
   trialEndsAtISO |-> Days[3]]

\* customersCache: null, or the rows of the last read
\* customersCache and customersCacheAt (lines 1817-1818); epoch: how many
\* invalidations had been made when the read of these rows began
NoCache == [held |-> FALSE, rows |-> <<>>, at |-> 0, epoch |-> 0]
Cached(rows) == [NoCache EXCEPT !.held = TRUE, !.rows = rows]

resolveCustomerFirst(customers, toEmail) ==
  LET hits == {i \in 1..Len(customers) :
                 toLowerCase(trim(safeStr(customers[i].intakeEmail))) = toEmail}
  IN  IF hits = {} THEN NoMatch
      ELSE customers[CHOOSE i \in hits : \A j \in hits : i <= j]

\* [...existingCustomers].reverse().find(x => safeStr(x.intakeEmail).trim()
\*   .toLowerCase() === toEmail) || null
resolveCustomer(customers, toEmail) ==
  LET hits == {i \in 1..Len(customers) :
                 toLowerCase(trim(safeStr(customers[i].intakeEmail))) = toEmail}
  IN  IF hits = {} THEN NoMatch
      ELSE customers[CHOOSE i \in hits : \A j \in hits : j <= i]

\* bound: rows of a directory given to the resolution
MaxRows == 3

E_intakeB == <<"b", "@", "d", "d">>

\* rows a directory may hold: two tenants with the intake address a@dd in
\* different spellings, one with another address, one without address
DirectoryRows ==
  { CustomerRow(S_active),
    [CustomerRow(S_trial) EXCEPT !.customerId = "custA2", !.intakeEmail = E_intakeA,
                                 !.tallySheetId = "sheetA2"],
    [CustomerRow(S_active) EXCEPT !.customerId = "custB", !.intakeEmail = E_intakeB,
                                  !.tallySheetId = "sheetB"],
    [CustomerRow(S_active) EXCEPT !.customerId = "custC", !.intakeEmail = <<>>,
                                  !.tallySheetId = "sheetC"] }

Directories == UNION { [1..n -> DirectoryRows] : n \in 0..MaxRows }

\* target addresses as a handler passes them on
Targets == {E_intakeATyped, <<" ">> \o E_intakeB, E_unknown, <<>>}

\* if (toEmail) { match = ... } with the directory rows at hand (lines
\* 2367-2378)
matchOf(existingCustomers, toEmail) ==
  IF toEmail # <<>> THEN resolveCustomer(existingCustomers, toEmail) ELSE NoMatch

\* ------------------------------------------------------------------ ledger
Today == Days[2]
Yesterday == Days[1]

\* no storage key (r2Key empty or undefined)
NoKey == <<>>

\* tokens of column G and notes of column C
HashToken(h) == <<"hash", h>>
R2Token(k) == <<"r2", k>>
Note(source, docType) == <<source, docType>>

\* the row ensureTodayTallyRow appends: [today, 0, "", customerId, "", "", "", ""]
NewRow(today, customerId) ==
  [date |-> today, count |-> 0, notes |-> <<>>, customerId |-> customerId,
   r2Key |-> NoKey, link |-> "", tokens |-> <<>>, lastScore |-> -1]

\* a row left by the previous day: it counted the documents h1 and h4
OldRow ==
  [date |-> Yesterday, count |-> 2,
   notes |-> joinCsv(<<Note("resend", "RESUME")>>), customerId |-> "custA",
   r2Key |-> <<"inbound", 0>>, link |-> "",
   tokens |-> joinCsv(<<HashToken("h1"), R2Token(<<"inbound", 0>>)>>), lastScore |-> 70]

\* today's row as an earlier run of the day left it: it counted h1
SeenRow ==
  [OldRow EXCEPT !.date = Today, !.count = 1]

\* the data rows that a values.get of the range A2:H1000 returns
LedgerRangeRows == 999
readRows(rows) ==
  IF Len(rows) > LedgerRangeRows THEN SubSeq(rows, 1, LedgerRangeRows) ELSE rows

\* a ledger whose rows of earlier days fill the range that is read
FullLedger == [i \in 1..LedgerRangeRows |-> OldRow]

\* rows.findIndex(r => safeStr(r?.[0]) === today): 0-based, -1 when absent
findIndex(rows, today) ==
  LET hits == {i \in 1..Len(rows) : rows[i].date = today}
  IN  IF hits = {} THEN -1
      ELSE (CHOOSE i \in hits : \A j \in hits : i <= j) - 1

\* values.get of one cell of sheet row rowIndex0 + 2; an empty cell outside
\* the data rows
getCell(rows, rowIndex0, col) ==
  IF rowIndex0 + 1 \in 1..Len(rows) THEN rows[rowIndex0 + 1][col] ELSE <<>>

\* values.update of one cell of sheet row rowIndex0 + 2
setCell(rows, rowIndex0, col, v) ==
  IF rowIndex0 + 1 \in 1..Len(rows)
    THEN [rows EXCEPT ![rowIndex0 + 1][col] = v]
    ELSE rows

\* the count of today's row as a reader of the ledger finds it (0 without row)
TodayCount(rows) ==
  IF findIndex(rows, Today) = -1 THEN 0 ELSE rows[findIndex(rows, Today) + 1].count

TodayTokens(rows) ==
  IF findIndex(rows, Today) = -1 THEN <<>>
  ELSE parseCsv(rows[findIndex(rows, Today) + 1].tokens)

\* stripR2FromNotes: the notes without the parts that start with "r2:"
stripR2FromNotes(notes) ==
  joinCsv(SelectSeq(parseCsv(notes), LAMBDA p : p[1] # "r2"))

\* appendNote(existing, note)
appendNote(existing, note) ==
  IF existing = <<>> THEN <<note>>
  ELSE IF includes(parseCsv(existing), note) THEN existing
  ELSE existing \o <<Comma, Space, note>>

\* tallyApply lines 2123-2132: the notes to write
nextNotesOf(currentNotes, source, docType) ==
  LET cleanedNotes ==
        joinCsv(SelectSeq(parseCsv(stripR2FromNotes(currentNotes)),
                          LAMBDA p : p # Note("inbound-file", "NON_RESUME")))
  IN  appendNote(cleanedNotes, Note(source, docType))

\* tallyApply lines 2211-2226: the token cell to write
nextTokensOf(currentG, docToken, r2Key) ==
  LET tokens == parseCsv(currentG)
      w1 == IF includes(tokens, docToken) THEN tokens ELSE Append(tokens, docToken)
      w2 == IF includes(w1, R2Token(r2Key)) THEN w1 ELSE Append(w1, R2Token(r2Key))
  IN  joinCsv(IF r2Key # NoKey THEN w2 ELSE w1)

\* ------------------------------------------------------------- submissions
Hashes == {"h1", "h2", "h3", "h4", "h5"}

\* a document: its bytes (hash), the category the handler's classifier gave it
\* and the length of its extracted text.  A RESUME has at least MinLetters
\* letters, so it is never shorter than that.
Docs ==
  { [hash |-> "h1", docType |-> "RESUME", len |-> MinScoreLen],
    [hash |-> "h2", docType |-> "RESUME", len |-> MinScoreLen - 1],
    [hash |-> "h3", docType |-> "RESUME", len |-> MAX_EXTRACTED_CHARS + 1],
    [hash |-> "h4", docType |-> "NON_RESUME", len |-> 200],
    [hash |-> "h5", docType |-> "RESUME", len |-> MAX_OPENAI_CHARS + 1] }

\* the storage key of a submission.  The upload and e-mail handlers make a
\* new key for every submission (lines 2999-3000, 3488-3489); the
\* storage-pointer handler is given the key of the stored object (line 3588).
R2KeyOf(source, hash, n) ==
  IF source = "inbound-r2" THEN <<"object", hash>> ELSE <<"inbound", n>>

Submission(doc, source, toEmail) ==
  [hash |-> doc.hash, docType |-> doc.docType, len |-> doc.len,
   source |-> source, toEmail |-> toEmail, r2 |-> TRUE]

DocOf(h) == CHOOSE d \in Docs : d.hash = h

\* submissions of the sequential specification
Submissions ==
  { Submission(DocOf(h), "resend", E_intakeATyped) : h \in {"h1", "h2", "h3", "h4"} }
    \cup { Submission(DocOf("h4"), "inbound-file", E_intakeATyped),
           Submission(DocOf("h2"), "inbound-r2", E_intakeATyped),
           Submission(DocOf("h1"), "resend", E_unknown) }

\* processInboundDoc called with r2: null, which the type of its argument
\* allows (line 2320): tallyApply is then called without an r2Key
KeylessSubmissions ==
  { [Submission(DocOf(h), "resend", E_intakeATyped) EXCEPT !.r2 = FALSE] :
      h \in {"h1", "h2"} }

\* submissions of the overlapping specification: all to the one tenant
OverlapSubmissions ==
  { Submission(DocOf(h), "resend", E_intakeATyped) : h \in {"h1", "h2", "h4"} }

\* submissions of the single-run specification: every document, the three
\* sources, an address of no tenant and no address
AllSubmissions ==
  { Submission(d, "resend", E_intakeATyped) : d \in Docs }
    \cup { Submission(DocOf("h4"), "inbound-file", E_intakeATyped),
           Submission(DocOf("h1"), "inbound-r2", E_intakeATyped),
           Submission(DocOf("h1"), "resend", E_unknown),
           Submission(DocOf("h1"), "resend", <<>>) }

\* billing statuses the tenant's directory row may hold
Statuses ==
  {S_trialing, S_trial_ended, S_past_due, S_PastDueCell, S_canceled, S_unpaid}

\* what the scorer's endpoint may answer in the sequential specification: a
\* score, JSON without score, an error status, unparsable text, an exception
ScoreOutcomes == {"score", "no_score", "http_429", "bad_json", "throw"}

\* the same, with the other error statuses
AllScoreOutcomes == ScoreOutcomes \cup {"http_401", "http_500"}

\* ----------------------------------------------------------------- results
NullAi == [skipped |-> FALSE, reason |-> "", error |-> "", score |-> -1, raw |-> ""]
AiSkip(reason) == [NullAi EXCEPT !.skipped = TRUE, !.reason = reason]
AiError(tag) == [NullAi EXCEPT !.error = tag]

\* the content of the endpoint's answer (line 35 of openaiScore.ts): an
\* empty content is read as "{}"
rawOf(outcome) ==
  CASE outcome = "score" -> "{\"score\": 70}"
    [] outcome = "no_score" -> "{}"
    [] outcome = "bad_json" -> "Score: 70"
    [] OTHER -> ""

scoreResumeOneTag(outcome) ==
  CASE outcome = "score" -> [NullAi EXCEPT !.score = 70]
    [] outcome = "no_score" -> NullAi
    [] OTHER -> AiError("openai_error")

\* scoreResume (openaiScore.ts): the parsed JSON, or a tagged error
scoreResume(outcome) ==
  CASE outcome = "score" -> [NullAi EXCEPT !.score = 70]
    [] outcome = "no_score" -> NullAi
    [] outcome = "bad_json" -> [AiError("parse_failed") EXCEPT !.raw = rawOf(outcome)]
    [] outcome = "http_429" -> AiError("quota_exceeded")
    [] outcome = "http_401" -> AiError("bad_api_key")
    [] OTHER -> AiError("openai_error")

\* tallyResult: result is "null", "skipped", "ok" or "error"; inc is the field
\* shouldIncrement, "undefined" when the object has none
NullTally == [result |-> "null", reason |-> "", inc |-> "undefined", nextCount |-> 0]
TallySkipped(reason, inc) ==
  [result |-> "skipped", reason |-> reason, inc |-> inc, nextCount |-> 0]
TallyFailed == [result |-> "error", reason |-> "tally_failed", inc |-> "undefined", nextCount |-> 0]
TallyOk(shouldIncrement, nextCount) ==
  [result |-> "ok", reason |-> "", inc |-> IF shouldIncrement THEN "true" ELSE "false",
   nextCount |-> nextCount]

\* ------------------------------------------------------------ file allowlist
MAX_ATTACHMENT_BYTES == 10485760
MAX_TOTAL_ATTACH_BYTES == 26214400
MAX_ATTACHMENTS == 10

Ext_pdf == <<"p", "d", "f">>
Ext_txt == <<"t", "x", "t">>
Ext_docx == <<"d", "o", "c", "x">>
ALLOWED_EXTS == {Ext_pdf, Ext_txt, Ext_docx}

\* the characters the pattern [a-zA-Z0-9._-] accepts
NameChars ==
  {"a", "b", "c", "d", "e", "f", "g", "h", "i", "j", "k", "l", "m", "n", "o",
   "p", "q", "r", "s", "t", "u", "v", "w", "x", "y", "z",
   "A", "B", "C", "D", "E", "F", "G", "H", "I", "J", "K", "L", "M", "N", "O",
   "P", "Q", "R", "S", "T", "U", "V", "W", "X", "Y", "Z",
   "0", "1", "2", "3", "4", "5", "6", "7", "8", "9", ".", "_", "-"}

\* s.lastIndexOf(c): 0-based, -1 when absent
lastIndexOf(s, c) ==
  LET hits == {i \in 1..Len(s) : s[i] = c}
  IN  IF hits = {} THEN -1
      ELSE (CHOOSE i \in hits : \A j \in hits : j <= i) - 1

extFromFilename(filename) ==
  LET base == toLowerCase(safeStr(filename))
      i == lastIndexOf(base, ".")
  IN  IF i >= 0 THEN SubSeq(base, i + 2, Len(base)) ELSE <<>>

RECURSIVE replaceRuns(_, _)
\* s.replace(/[^a-zA-Z0-9._-]+/g, "_"): every run of other characters
\* becomes one "_"; inRun says that the character before was of such a run
replaceRuns(s, inRun) ==
  IF s = <<>> THEN <<>>
  ELSE IF Head(s) \in NameChars THEN <<Head(s)>> \o replaceRuns(Tail(s), FALSE)
  ELSE IF inRun THEN replaceRuns(Tail(s), TRUE)
  ELSE <<"_">> \o replaceRuns(Tail(s), TRUE)

UploadBin == <<"u", "p", "l", "o", "a", "d", ".", "b", "i", "n">>
AttachmentBin ==
  <<"a", "t", "t", "a", "c", "h", "m", "e", "n", "t", ".", "b", "i", "n">>
FileBin == <<"f", "i", "l", "e", ".", "b", "i", "n">>

normalizeUploadName(name) ==
  replaceRuns(safeStr(IF name # <<>> THEN name ELSE UploadBin), FALSE)

isAllowedFileByName(filename) ==
  LET ext == extFromFilename(filename)
  IN  ext # <<>> /\ ext \in ALLOWED_EXTS

\* key.split("/").pop() || "file.bin"
safeBaseName(key) ==
  LET base == SubSeq(key, lastIndexOf(key, "/") + 2, Len(key))
  IN  IF base # <<>> THEN base ELSE FileBin

\* the time stamp the handlers put in front of a stored name, one item here
Stamp == "2026-01-02T10-00-00-000Z"

\* .replace(/^\d{4}-\d{2}-\d{2}T.*?Z__/, "")
stripStamp(name) ==
  IF Len(name) >= 3 /\ name[1] = Stamp /\ name[2] = "_" /\ name[3] = "_"
    THEN SubSeq(name, 4, Len(name))
    ELSE name

\* the body of a handler's JSON response, with the fields the handlers use
Body(ok, error, reason, filename, blocked, processed) ==
  [ok |-> ok, error |-> error, reason |-> reason, filename |-> filename,
   blocked |-> blocked, processed |-> processed]

unsupportedFileTypePayload(filename) ==
  Body(FALSE, "unsupported_file_type", "", filename, <<>>, <<>>)

RECURSIVE guardAttachmentsNoTotal(_, _, _, _)
guardAttachmentsNoTotal(atts, total, allowed, oversized) ==
  IF atts = <<>> THEN [allowed |-> allowed, oversized |-> oversized]
  ELSE
    LET att == Head(atts)
        original ==
          IF safeStr(att.filename) # <<>> THEN safeStr(att.filename)
          ELSE AttachmentBin
        safeName == normalizeUploadName(original)
        size == att.size
        Blocked(reason) ==
          Append(oversized, [id |-> att.id, filename |-> safeName,
                             size |-> size, reason |-> reason])
    IN  IF ~isAllowedFileByName(safeName)
          THEN guardAttachmentsNoTotal(Tail(atts), total, allowed,
                                       Blocked("unsupported_file_type"))
        ELSE IF size <= 0
          THEN guardAttachmentsNoTotal(Tail(atts), total, allowed,
                                       Blocked("missing_or_invalid_size"))
        ELSE IF size > MAX_ATTACHMENT_BYTES
          THEN guardAttachmentsNoTotal(Tail(atts), total, allowed,
                                       Blocked("attachment_too_large"))
        ELSE guardAttachmentsNoTotal(Tail(atts), total + size, Append(allowed, att),
                                     oversized)

RECURSIVE guardAttachments(_, _, _, _)
\* the attachment guards of the e-mail handler, lines 2884-2941: the
\* attachments to download and the list of the blocked ones
guardAttachments(atts, total, allowed, oversized) ==
  IF atts = <<>> THEN [allowed |-> allowed, oversized |-> oversized]
  ELSE
    LET att == Head(atts)
        original ==
          IF safeStr(att.filename) # <<>> THEN safeStr(att.filename)
          ELSE AttachmentBin
        safeName == normalizeUploadName(original)
        size == att.size
        Blocked(reason) ==
          Append(oversized, [id |-> att.id, filename |-> safeName,
                             size |-> size, reason |-> reason])
    IN  IF ~isAllowedFileByName(safeName)
          THEN guardAttachments(Tail(atts), total, allowed,
                                Blocked("unsupported_file_type"))
        ELSE IF size <= 0
          THEN guardAttachments(Tail(atts), total, allowed,
                                Blocked("missing_or_invalid_size"))
        ELSE IF size > MAX_ATTACHMENT_BYTES
          THEN guardAttachments(Tail(atts), total, allowed,
                                Blocked("attachment_too_large"))
        ELSE IF total + size > MAX_TOTAL_ATTACH_BYTES
          THEN guardAttachments(Tail(atts), total, allowed,
                                Blocked("total_attachments_too_large"))
        ELSE guardAttachments(Tail(atts), total + size, Append(allowed, att),
                              oversized)

\* lines 2881-2941: the guard over atts.slice(0, MAX_ATTACHMENTS)
guardOfMail(atts) ==
  guardAttachments(
    SubSeq(atts, 1, IF Len(atts) < MAX_ATTACHMENTS THEN Len(atts)
                    ELSE MAX_ATTACHMENTS),
    0, <<>>, <<>>)

\* ---------------------------------------------------------- inbound requests
\* bound: attachments of one inbound e-mail
MaxAtts == 2

\* file names a sender may choose
N_cvPdf == <<"c", "v", ".", "p", "d", "f">>
N_cvPdfUpper == <<"C", "V", ".", "P", "D", "F">>
N_myTxt == <<"m", " ", "y", ".", "t", "x", "t">>
N_docx == <<".", "d", "o", "c", "x">>
N_csv == <<"a", ".", "c", "s", "v">>
N_pdfExe == <<"x", ".", "p", "d", "f", ".", "e", "x", "e">>
N_noDot == <<"p", "d", "f">>
N_trailingDot == <<"c", "v", ".">>
N_empty == <<>>

FileNames ==
  {N_cvPdf, N_cvPdfUpper, N_myTxt, N_docx, N_csv, N_pdfExe, N_noDot,
   N_trailingDot, N_empty}

\* POST /webhooks/inbound-file: the multipart file (or none), the toEmail field
FileRequests ==
  { [file |-> TRUE, originalname |-> n, toEmail |-> E_intakeATyped, hash |-> "h1"]
      : n \in FileNames }
    \cup { [file |-> FALSE, originalname |-> N_empty, toEmail |-> E_intakeATyped,
            hash |-> "h1"],
           [file |-> TRUE, originalname |-> N_csv, toEmail |-> <<>>, hash |-> "h1"] }

\* POST /webhooks/inbound-r2: the secret header, the key, the toEmail field
KeyOf(name) == <<"i", "n", "/", Stamp, "_", "_">> \o name

R2Requests ==
  { [secretOk |-> TRUE, key |-> KeyOf(n), toEmail |-> E_intakeATyped, hash |-> "h1"]
      : n \in {N_cvPdf, N_csv, N_noDot, N_empty} }
    \cup { [secretOk |-> TRUE, key |-> N_cvPdfUpper, toEmail |-> E_intakeATyped,
            hash |-> "h1"],
           [secretOk |-> TRUE, key |-> <<"i", "n", "/">>, toEmail |-> E_intakeATyped,
            hash |-> "h1"],
           [secretOk |-> TRUE, key |-> <<>>, toEmail |-> E_intakeATyped, hash |-> "h1"],
           [secretOk |-> TRUE, key |-> KeyOf(N_cvPdf), toEmail |-> <<>>, hash |-> "h1"],
           [secretOk |-> FALSE, key |-> KeyOf(N_cvPdf), toEmail |-> E_intakeATyped,
            hash |-> "h1"] }

\* attachments as the mail service lists them
Attachments ==
  { [filename |-> N_cvPdf, size |-> 5000, url |-> TRUE, hash |-> "h1"],
    [filename |-> N_myTxt, size |-> 5000, url |-> FALSE, hash |-> "h2"],
    [filename |-> N_csv, size |-> 5000, url |-> TRUE, hash |-> "h4"],
    [filename |-> N_empty, size |-> 5000, url |-> TRUE, hash |-> "h4"],
    [filename |-> N_docx, size |-> 0, url |-> TRUE, hash |-> "h2"],
    [filename |-> N_cvPdfUpper, size |-> MAX_ATTACHMENT_BYTES + 1, url |-> TRUE,
     hash |-> "h2"] }

AttachmentLists ==
  UNION { [1..n -> Attachments] : n \in 0..MaxAtts }

\* bound: attachments of an e-mail given to the size guard alone
MaxMailAtts == 11

\* small and largest-allowed attachments, in lists longer than MAX_ATTACHMENTS
GuardInputs ==
  AttachmentLists
    \cup UNION { [1..n -> { [filename |-> N_cvPdf, size |-> sz, url |-> TRUE,
                             hash |-> "h1"] : sz \in {5000, MAX_ATTACHMENT_BYTES} }] :
                 n \in 0..MaxMailAtts }

\* the id of an attachment is its place in the list
WithIds(atts) ==
  [i \in 1..Len(atts) |->
     [id |-> i, filename |-> atts[i].filename, size |-> atts[i].size,
      url |-> atts[i].url, hash |-> atts[i].hash]]

\* POST /webhooks/resend-inbound: the verified event (or a bad signature),
\* the e-mail the mail service returns for it, its attachments and text
MailRequests ==
  { [evt |-> "email.received", found |-> TRUE, to |-> E_intakeATyped,
     atts |-> WithIds(l), text |-> TRUE, hash |-> "h2"] : l \in AttachmentLists }
    \cup { [evt |-> "bad_signature", found |-> TRUE, to |-> E_intakeATyped,
            atts |-> <<>>, text |-> TRUE, hash |-> "h2"],
           [evt |-> "email.sent", found |-> TRUE, to |-> E_intakeATyped,
            atts |-> <<>>, text |-> TRUE, hash |-> "h2"],
           [evt |-> "email.received", found |-> FALSE, to |-> E_intakeATyped,
            atts |-> <<>>, text |-> TRUE, hash |-> "h2"],
           [evt |-> "email.received", found |-> TRUE, to |-> <<>>,
            atts |-> <<>>, text |-> TRUE, hash |-> "h2"],
           [evt |-> "email.received", found |-> TRUE, to |-> E_intakeATyped,
            atts |-> <<>>, text |-> FALSE, hash |-> "h2"] }

\* the name the e-mail handler gives a text body: email_<id>.txt
BodyName == <<"e", "m", "a", "i", "l", "_", "1", ".", "t", "x", "t">>

\* what a handler does with a file after the checks
Ops == {"download", "upload", "extract", "processInboundDoc"}

NoBody == Body(FALSE, "", "", <<>>, <<>>, <<>>)

\* the locals of the request a handler is serving
IdleHandler ==
  [pc |-> "idle", kind |-> "", textBody |-> FALSE, toEmail |-> <<>>,
   files |-> <<>>, checked |-> FALSE, allowed |-> <<>>, k |-> 0,
   oversized |-> <<>>, processed |-> <<>>, calls |-> {}, slot |-> 0,
   status |-> 0, body |-> NoBody]

\* res.status(status).json(body)
Respond(h, status, body) ==
  [h EXCEPT !.pc = "responded", !.status = status, !.body = body]

\* -------------------------------------------------------------------- state
VARIABLES
  customers,   \* the customer directory, in sheet order
  sheet,       \* the tenant's ledger: data rows of its tally sheet
  run,         \* per slot: the locals of the processInboundDoc run in it
  nStarted,    \* submissions started so far
  applied,     \* hashes for which a tallyApply returned a confirmed increment
  incs,        \* per hash: writes of the count cell that wrote current + 1
  sentBy,      \* per hash: notifications handed to the mail service
  readFailedFor, \* hashes with a run in which a ledger read failed
  handler,     \* the locals of the inbound request being served
  customersCache, \* the directory rows the process holds, or NoCache
  call,        \* a call of one of the pure functions: its input and result
  fetches      \* the clock and the getCustomersCached calls in flight

vars ==
  <<customers, sheet, run, nStarted, applied, incs, sentBy, readFailedFor, handler,
    customersCache, call, fetches>>

\* a call of a pure function: its name, its arguments, and its result once
\* it is done
Call(fn, status, text, directory, to) ==
  [fn |-> fn, done |-> FALSE, status |-> status, text |-> text,
   customers |-> directory, toEmail |-> to,
   gate |-> [allowed |-> TRUE, reason |-> <<>>], docType |-> "", match |-> NoMatch,
   atts |-> <<>>, guard |-> [allowed |-> <<>>, oversized |-> <<>>]]

\* no pure function is being called
NoCall == Call("", <<>>, <<>>, <<>>, <<>>)

\* the calls of the pure functions
Calls ==
  { Call("isProcessingAllowed", st, <<>>, <<>>, <<>>) : st \in StatusInputs }
    \cup { Call("classifyDocTypeFromText", <<>>, t, <<>>, <<>>) : t \in Texts }
    \cup { Call("resolve", <<>>, <<>>, d, to) : d \in Directories, to \in Targets }
    \cup { [Call("guardAttachments", <<>>, <<>>, <<>>, <<>>) EXCEPT !.atts = l] :
             l \in GuardInputs }

\* a call of getCustomersCached: now is its Date.now(), hit whether it found
\* the cache held and fresh, rows what it read or returns, epoch the number of
\* invalidations made before it began
IdleFetch ==
  [pc |-> "idle", now |-> 0, hit |-> FALSE, rows |-> <<>>, epoch |-> 0]

\* bound: concurrent calls of getCustomersCached
FetchSlots == {1, 2}

\* the clock in ms, the clock steps and invalidations made, the calls
NoFetches ==
  [clock |-> 0, ticks |-> 0, epoch |-> 0, calls |-> [c \in FetchSlots |-> IdleFetch]]

\* what processInboundDoc returns: nothing yet, or the result object
NoResult == [returned |-> FALSE, ok |-> FALSE]

IdleRun ==
  [pc |-> "idle", source |-> "", hash |-> "", docType |-> "", len |-> 0,
   toEmail |-> <<>>, r2Key |-> NoKey,
   match |-> NoMatch, blocked |-> FALSE, stage |-> "",
   rowIndex0 |-> 0, currentCount |-> 0, currentNotes |-> <<>>,
   shouldIncrement |-> FALSE, nextCount |-> 0, nextNotes |-> <<>>,
   nextG |-> <<>>,
   ai |-> NullAi, tally |-> NullTally,
   \* what the run did, for the properties
   result |-> NoResult, sentTo |-> <<>>, directoryStatus |-> <<>>,
   upstream |-> "", forAiLen |-> 0,
   scorerCalls |-> 0, sendAttempts |-> 0, sent |-> 0, mailKind |-> "",
   audits |-> 0, auditOk |-> FALSE, writes |-> 0,
   resolveFailed |-> FALSE, readFailed |-> FALSE, checkFailed |-> FALSE,
   tokenReadFailed |-> FALSE, ensureFailed |-> FALSE, applyFailed |-> FALSE,
   dupAtStart |-> FALSE, tokenAtStart |-> FALSE, countAtStart |-> 0,
   overlapped |-> FALSE]

Active(e) == e.pc \notin {"idle", "done"}

InitWith(statuses, ledgers) ==
  /\ call = NoCall
  /\ customers \in {<<CustomerRow(st)>> : st \in statuses}
  /\ sheet \in ledgers
  /\ run = [r \in Runs |-> IdleRun]
  /\ nStarted = 0
  /\ applied = {}
  /\ incs = [h \in Hashes |-> 0]
  /\ sentBy = [h \in Hashes |-> 0]
  /\ readFailedFor = {}
  /\ handler = IdleHandler
  /\ customersCache = NoCache
  /\ fetches = NoFetches

\* --------------------------------------------- processInboundDoc, in pieces
\* Each operator below is the code that runs without a remote call between
\* two steps; it maps the locals of a run to the locals at its next call.

sheetIdOf(e) == e.match.tallySheetId
customerIdOf(e) == e.match.customerId

\* extractedTooLarge and the capped text (lines 2353-2354)
extractedTooLarge(e) == e.len > MAX_EXTRACTED_CHARS
extractedLen(e) == IF extractedTooLarge(e) THEN MAX_EXTRACTED_CHARS ELSE e.len

\* line 2448: forAi = extractedText.slice(0, MAX_OPENAI_CHARS)
forAiLenOf(e) ==
  IF extractedLen(e) > MAX_OPENAI_CHARS THEN MAX_OPENAI_CHARS ELSE extractedLen(e)

\* tallyApply has returned or thrown: its locals are gone
Leave(e) ==
  [e EXCEPT !.stage = "", !.rowIndex0 = 0, !.currentCount = 0,
            !.currentNotes = <<>>, !.shouldIncrement = FALSE, !.nextCount = 0,
            !.nextNotes = <<>>, !.nextG = <<>>]

\* every return of processInboundDoc gives { ok: true, ... } (lines 2542,
\* 2601, 2690)
ReturnOk(e) == [e EXCEPT !.result = [returned |-> TRUE, ok |-> TRUE], !.pc = "done"]

\* an exception leaves processInboundDoc
Throw(e) == [e EXCEPT !.pc = "thrown"]

EnterTallyUnlessAiError(e) ==
  IF e.blocked
    THEN [e EXCEPT !.tally = TallySkipped("billing_block", "undefined"), !.pc = "audit"]
  ELSE IF e.ai.skipped /\ e.ai.reason = "idempotent_skip"
    THEN [e EXCEPT !.tally = TallySkipped("idempotent_skip", "false"), !.pc = "audit"]
  ELSE IF sheetIdOf(e) # "" /\ customerIdOf(e) # "" /\ e.ai.error = ""
    THEN [e EXCEPT !.stage = "tally", !.pc = "ensure_get"]
  ELSE [e EXCEPT !.pc = "audit"]

EnterTallyUnresolved(e) ==
  IF e.blocked
    THEN [e EXCEPT !.tally = TallySkipped("billing_block", "undefined"), !.pc = "audit"]
  ELSE IF e.ai.skipped /\ e.ai.reason = "idempotent_skip"
    THEN [e EXCEPT !.tally = TallySkipped("idempotent_skip", "false"), !.pc = "audit"]
  ELSE [e EXCEPT !.stage = "tally", !.pc = "ensure_get"]

\* lines 2465-2489, up to the call of tallyApply
EnterTally(e) ==
  IF e.blocked
    THEN [e EXCEPT !.tally = TallySkipped("billing_block", "undefined"), !.pc = "audit"]
  ELSE IF e.ai.skipped /\ e.ai.reason = "idempotent_skip"
    THEN [e EXCEPT !.tally = TallySkipped("idempotent_skip", "false"), !.pc = "audit"]
  ELSE IF sheetIdOf(e) # "" /\ customerIdOf(e) # ""
    THEN [e EXCEPT !.stage = "tally", !.pc = "ensure_get"]
  ELSE [e EXCEPT !.pc = "audit"]

AfterIdemStrict(e, alreadyProcessedToday) ==
  IF extractedLen(e) > MinScoreLen
    THEN IF alreadyProcessedToday
           THEN EnterTally([e EXCEPT !.ai = AiSkip("idempotent_skip")])
           ELSE [e EXCEPT !.pc = "score"]
    ELSE EnterTally([e EXCEPT !.ai = AiSkip("too_short")])

\* lines 2443-2453: after the daily idempotency check of the scoring stage
AfterIdem(e, alreadyProcessedToday) ==
  IF extractedLen(e) > 0 /\ extractedLen(e) >= MinScoreLen
    THEN IF alreadyProcessedToday
           THEN EnterTally([e EXCEPT !.ai = AiSkip("idempotent_skip")])
           ELSE [e EXCEPT !.pc = "score"]
    ELSE EnterTally([e EXCEPT !.ai = AiSkip("too_short")])

\* lines 2398-2457, up to the first remote call of the scoring stage
EnterAi(e) ==
  IF e.blocked THEN EnterTally([e EXCEPT !.ai = AiSkip("billing_block")])
  ELSE IF e.docType = "RESUME" /\ extractedLen(e) > MinAiTrimLen
    THEN IF extractedTooLarge(e)
           THEN EnterTally([e EXCEPT !.ai = AiSkip("too_large")])
         ELSE IF sheetIdOf(e) # "" /\ customerIdOf(e) # ""
           THEN [e EXCEPT !.stage = "ai", !.pc = "ensure_get"]
         ELSE AfterIdem(e, FALSE)
  ELSE EnterTally([e EXCEPT !.ai =
         AiSkip(IF e.docType # "RESUME" THEN "non_resume" ELSE "too_short")])

LedgerThrowEscapes(e, isRead) ==
  IF e.stage = "ai" THEN AfterIdem([e EXCEPT !.checkFailed = TRUE], FALSE)
  ELSE Throw(e)

\* a ledger call threw: the scoring stage swallows it (lines 2437-2441), the
\* tally stage turns it into tally_failed (lines 2490-2497)
LedgerThrow(e, isRead) ==
  LET f == [e EXCEPT !.readFailed = e.readFailed \/ isRead,
                     !.ensureFailed =
                        e.ensureFailed
                          \/ e.pc \in {"ensure_get", "ensure_append", "ensure_reread"}]
  IN  IF e.stage = "ai"
        THEN AfterIdem([f EXCEPT !.checkFailed = TRUE], FALSE)
        ELSE Leave([f EXCEPT !.applyFailed = TRUE, !.tally = TallyFailed,
                             !.pc = "audit"])

AfterEnsureCountsAll(e) ==
  IF e.stage = "ai" THEN [e EXCEPT !.pc = "token_get"]
  ELSE [e EXCEPT
          !.nextNotes = nextNotesOf(e.currentNotes, e.source, e.docType),
          !.shouldIncrement = TRUE, !.pc = "token_get"]

\* ensureTodayTallyRow has returned: lines 2421 (scoring stage) and
\* 2123-2135 (tallyApply)
AfterEnsure(e) ==
  IF e.stage = "ai" THEN [e EXCEPT !.pc = "token_get"]
  ELSE LET f == [e EXCEPT
                   !.nextNotes = nextNotesOf(e.currentNotes, e.source, e.docType),
                   !.shouldIncrement = (e.docType = "RESUME")]
       IN  IF e.docType = "RESUME" THEN [f EXCEPT !.pc = "token_get"]
           ELSE [f EXCEPT !.nextCount = e.currentCount, !.pc = "write_B"]

hasTokenNever(currentG, docToken) == FALSE

\* currentG.split(",").map(trim).filter(Boolean).includes(docToken)
hasToken(currentG, docToken) ==
  IF currentG # <<>> THEN includes(parseCsv(currentG), docToken) ELSE FALSE

\* tallyApply returns { today, nextCount, nextNotes, shouldIncrement }
Returned(e) ==
  Leave([e EXCEPT !.tally = TallyOk(e.shouldIncrement, e.nextCount), !.pc = "audit"])

\* the mail decision from the eligibility flags alone
MailDecision(e) ==
  LET scoredEligible ==
        e.toEmail # <<>> /\ e.match # NoMatch /\ ~e.blocked /\ e.docType = "RESUME"
          /\ ~e.ai.skipped /\ e.ai.error = ""
      receiptEligible ==
        e.toEmail # <<>> /\ e.match # NoMatch /\ ~e.blocked /\ e.docType = "RESUME"
  IN  IF ~scoredEligible /\ ~receiptEligible THEN ReturnOk(e)
      ELSE [e EXCEPT !.mailKind = IF scoredEligible THEN "scored" ELSE "receipt",
                     !.pc = "send"]

AfterAuditNoGate(e) == MailDecision(e)

AfterAuditLooseGate(e) ==
  IF e.tally.inc = "false" THEN ReturnOk(e) ELSE MailDecision(e)

\* lines 2520-2676: the gate of the result mail, after the audit insert
AfterAudit(e) ==
  LET didIncrement == e.tally.inc = "true"
      hasToEmail == e.toEmail # <<>>
      matchFound == e.match # NoMatch
      isResume == e.docType = "RESUME"
      scoredEligible ==
        hasToEmail /\ matchFound /\ ~e.blocked /\ isResume
          /\ ~e.ai.skipped /\ e.ai.error = ""
      receiptEligible == hasToEmail /\ matchFound /\ ~e.blocked /\ isResume
  IN  IF ~didIncrement THEN ReturnOk(e)
      ELSE IF ~scoredEligible /\ ~receiptEligible THEN ReturnOk(e)
      ELSE [e EXCEPT !.mailKind = IF scoredEligible THEN "scored" ELSE "receipt",
                     !.pc = "send"]

\* ------------------------------------------------------------------ actions
\* what every step leaves alone besides the run and the ledger
Bookkeeping(r) ==
  /\ applied' =
       IF run[r].pc # "audit" /\ run'[r].pc = "audit" /\ run'[r].tally.inc = "true"
            /\ run'[r].tally.result = "ok"
         THEN applied \cup {run[r].hash}
         ELSE applied
  /\ readFailedFor' =
       IF run'[r].readFailed THEN readFailedFor \cup {run[r].hash} ELSE readFailedFor
  /\ UNCHANGED <<customers, nStarted, handler, call, fetches>>

\* a handler calls processInboundDoc(args) in slot r
Begin(r, sub) ==
  /\ ~Active(run[r])
  /\ \A q \in Runs : q < r => Active(run[q])
  /\ nStarted < MaxRuns
  /\ nStarted' = nStarted + 1
  /\ run' =
       [q \in Runs |->
          IF q = r
            THEN [IdleRun EXCEPT
                    !.pc = "resolve", !.source = sub.source, !.hash = sub.hash,
                    !.docType = sub.docType, !.len = sub.len,
                    !.toEmail = toLowerCase(trim(safeStr(sub.toEmail))),
                    !.r2Key = IF sub.r2
                                THEN R2KeyOf(sub.source, sub.hash, nStarted + 1)
                                ELSE NoKey,
                    !.dupAtStart = (sub.hash \in applied),
                    !.tokenAtStart =
                       includes(TodayTokens(sheet), HashToken(sub.hash)),
                    !.countAtStart = TodayCount(sheet),
                    !.overlapped = \E o \in Runs \ {r} : Active(run[o])]
            ELSE IF Active(run[q]) THEN [run[q] EXCEPT !.overlapped = TRUE]
            ELSE run[q]]
  /\ UNCHANGED <<customers, sheet, applied, incs, sentBy, readFailedFor,
                 customersCache, call, fetches>>

\* processInboundDoc starts for one of the submissions subs
Start(r, subs) ==
  /\ \E sub \in subs : Begin(r, sub)
  /\ UNCHANGED handler

\* the same, for the one run of a behaviour
StartOnce(r, subs) ==
  /\ nStarted = 0
  /\ \E sub \in subs : Begin(r, sub)
  /\ UNCHANGED handler

\* the same, when no other run is in flight
StartSeq(r, subs) ==
  /\ \A q \in Runs : ~Active(run[q])
  /\ \E sub \in subs : Begin(r, sub)
  /\ UNCHANGED handler

\* getCustomersCached (lines 1819-1826).  fresh: now - customersCacheAt <
\* ttlMs; ok: the read of the directory sheet succeeds.  The result has the
\* rows returned (thrown: the read failed) and the cache afterwards.
getCustomersCached(cache, directory, fresh, ok) ==
  IF cache.held /\ fresh
    THEN [thrown |-> FALSE, rows |-> cache.rows, cache |-> cache]
  ELSE IF ok
    THEN [thrown |-> FALSE, rows |-> directory, cache |-> Cached(directory)]
  ELSE [thrown |-> TRUE, rows |-> <<>>, cache |-> cache]

\* whether less than ttlMs passed since the cache was filled: Date.now() is an
\* input of getCustomersCached
Fresh == BOOLEAN

\* lines 2367-2394: getCustomersCached, the match, the billing gate
Resolve(r, oks) ==
  /\ run[r].pc = "resolve"
  /\ \E ok \in oks, fresh \in Fresh :
       LET e == run[r]
           got == IF e.toEmail # <<>>
                    THEN getCustomersCached(customersCache, customers, fresh, ok)
                    ELSE [thrown |-> FALSE, rows |-> <<>>, cache |-> customersCache]
           match == IF got.thrown THEN NoMatch ELSE matchOf(got.rows, e.toEmail)
           gate == isProcessingAllowed(safeStr(match.status))
           blocked == match.customerId # "" /\ gate.allowed = FALSE
           f == [e EXCEPT !.match = match, !.blocked = blocked,
                          !.resolveFailed = got.thrown,
                          !.directoryStatus =
                             matchOf(customers, e.toEmail).status]
       IN  /\ run' = [run EXCEPT ![r] =
                  IF match.customerId # "" THEN [f EXCEPT !.pc = "rubric"]
                  ELSE EnterAi(f)]
           /\ customersCache' = got.cache
  /\ Bookkeeping(r)
  /\ UNCHANGED <<sheet, incs, sentBy>>

\* line 2394: getCustomerRubric, which gives null when its query fails.  No
\* rubric is stored for the tenant, so the lookup gives null either way.
Rubric(r, oks) ==
  /\ run[r].pc = "rubric"
  /\ \E ok \in oks : run' = [run EXCEPT ![r] = EnterAi(run[r])]
  /\ Bookkeeping(r)
  /\ UNCHANGED <<sheet, incs, sentBy, customersCache>>

\* ensureTodayTallyRow, lines 2015-2027: read the rows, look for today's
EnsureGet(r, oks) ==
  /\ run[r].pc = "ensure_get"
  /\ \E ok \in oks :
       LET e == run[r]
           rows == readRows(sheet)
           rowIndex0 == findIndex(rows, Today)
       IN  run' = [run EXCEPT ![r] =
             IF ~ok THEN LedgerThrow(e, TRUE)
             ELSE IF rowIndex0 # -1
               THEN AfterEnsure([e EXCEPT
                      !.rowIndex0 = rowIndex0,
                      !.currentCount = rows[rowIndex0 + 1].count,
                      !.currentNotes = safeStr(rows[rowIndex0 + 1].notes)])
               ELSE [e EXCEPT !.pc = "ensure_append"]]
  /\ Bookkeeping(r)
  /\ UNCHANGED <<sheet, incs, sentBy, customersCache>>

\* ensureTodayTallyRow, lines 2029-2034: append today's row
EnsureAppend(r, oks) ==
  /\ run[r].pc = "ensure_append"
  /\ \E ok \in oks :
       LET e == run[r]
       IN  /\ sheet' = IF ok THEN Append(sheet, NewRow(Today, customerIdOf(e))) ELSE sheet
           /\ run' = [run EXCEPT ![r] =
                IF ok THEN [e EXCEPT !.writes = e.writes + 1, !.pc = "ensure_reread"]
                ELSE LedgerThrow(e, FALSE)]
  /\ Bookkeeping(r)
  /\ UNCHANGED <<incs, sentBy, customersCache>>

\* ensureTodayTallyRow, lines 2036-2048: read again, return the row's place
EnsureReread(r, oks) ==
  /\ run[r].pc = "ensure_reread"
  /\ \E ok \in oks :
       LET e == run[r]
           rows2 == readRows(sheet)
           idx2 == findIndex(rows2, Today)
       IN  run' = [run EXCEPT ![r] =
             IF ~ok THEN LedgerThrow(e, TRUE)
             ELSE AfterEnsure([e EXCEPT
                    !.rowIndex0 = IF idx2 = -1 THEN Len(rows2) - 1 ELSE idx2,
                    !.currentCount = 0,
                    !.currentNotes = <<>>])]
  /\ Bookkeeping(r)
  /\ UNCHANGED <<sheet, incs, sentBy, customersCache>>

TokenGetFailClosed(r, oks) ==
  /\ run[r].pc = "token_get"
  /\ \E ok \in oks :
       LET e == run[r]
           currentG == safeStr(getCell(sheet, e.rowIndex0, "tokens"))
           has == hasToken(currentG, HashToken(e.hash))
       IN  run' = [run EXCEPT ![r] =
             IF e.stage = "ai"
               THEN IF ok THEN AfterIdem(e, has) ELSE LedgerThrow(e, TRUE)
             ELSE IF ~ok \/ has
               THEN Leave([e EXCEPT !.readFailed = e.readFailed \/ ~ok,
                                    !.tokenReadFailed = ~ok,
                                    !.tally = TallyOk(FALSE, e.currentCount),
                                    !.pc = "audit"])
             ELSE [e EXCEPT !.nextCount = e.currentCount + 1,
                            !.pc = "write_B"]]
  /\ Bookkeeping(r)
  /\ UNCHANGED <<sheet, incs, sentBy, customersCache>>

\* the read of the token cell G: lines 2423-2435 (scoring stage) and
\* 2136-2160 (tallyApply)
TokenGet(r, oks) ==
  /\ run[r].pc = "token_get"
  /\ \E ok \in oks :
       LET e == run[r]
           currentG == safeStr(getCell(sheet, e.rowIndex0, "tokens"))
           has == hasToken(currentG, HashToken(e.hash))
       IN  run' = [run EXCEPT ![r] =
             IF e.stage = "ai"
               THEN IF ok THEN AfterIdem(e, has) ELSE LedgerThrow(e, TRUE)
             ELSE IF ok /\ has
               THEN Leave([e EXCEPT !.tally = TallyOk(FALSE, e.currentCount),
                                    !.pc = "audit"])
             ELSE [e EXCEPT !.readFailed = e.readFailed \/ ~ok,
                            !.tokenReadFailed = ~ok,
                            !.nextCount = e.currentCount + 1,
                            !.pc = "write_B"]]
  /\ Bookkeeping(r)
  /\ UNCHANGED <<sheet, incs, sentBy, customersCache>>

\* lines 2448-2449: safeScoreResume(forAi, rubric); a throw becomes
\* ai_failed (lines 2458-2460)
ScoreCall(r, outcomes) ==
  /\ run[r].pc = "score"
  /\ \E outcome \in outcomes :
       LET e == run[r]
           ai == IF outcome = "throw" THEN AiError("ai_failed") ELSE scoreResume(outcome)
       IN  run' = [run EXCEPT ![r] =
             EnterTally([e EXCEPT !.ai = ai, !.scorerCalls = e.scorerCalls + 1,
                                  !.upstream = outcome,
                                  !.forAiLen = forAiLenOf(e)])]
  /\ Bookkeeping(r)
  /\ UNCHANGED <<sheet, incs, sentBy, customersCache>>

\* one values.update of tallyApply: write cell col of the run's row, go on
\* at pc next (next is "return" when tallyApply returns after this write)
WriteCell(r, oks, at, col, v, next) ==
  /\ run[r].pc = at
  /\ \E ok \in oks :
       LET e == run[r]
       IN  /\ sheet' = IF ok THEN setCell(sheet, e.rowIndex0, col, v) ELSE sheet
           /\ run' = [run EXCEPT ![r] =
                IF ~ok THEN LedgerThrow(e, FALSE)
                ELSE IF next = "return" THEN Returned([e EXCEPT !.writes = e.writes + 1])
                ELSE [e EXCEPT !.writes = e.writes + 1, !.pc = next]]
           /\ incs' = IF ok /\ col = "count" /\ e.shouldIncrement
                        THEN [incs EXCEPT ![e.hash] = incs[e.hash] + 1]
                        ELSE incs
  /\ Bookkeeping(r)
  /\ UNCHANGED <<sentBy, customersCache>>

WriteBStale(r, oks) ==
  WriteCell(r, oks, "write_B", "count", run[r].currentCount, "write_C")

\* lines 2162-2169: B = nextCount
WriteB(r, oks) ==
  WriteCell(r, oks, "write_B", "count", run[r].nextCount, "write_C")

\* lines 2171-2176: C = nextNotes
WriteC(r, oks) ==
  WriteCell(r, oks, "write_C", "notes", run[r].nextNotes, "write_D")

WriteDAnyType(r, oks) ==
  WriteCell(r, oks, "write_D", "customerId", customerIdOf(run[r]),
            IF run[r].r2Key # NoKey THEN "write_E" ELSE "return")

\* lines 2178-2185: D = customerId; the rest only for a RESUME with an r2Key
WriteD(r, oks) ==
  WriteCell(r, oks, "write_D", "customerId", customerIdOf(run[r]),
            IF run[r].docType = "RESUME" /\ run[r].r2Key # NoKey THEN "write_E" ELSE "return")

\* lines 2186-2192: E = r2Key
WriteE(r, oks) ==
  WriteCell(r, oks, "write_E", "r2Key", run[r].r2Key, "write_F")

\* lines 2194-2202: F = link to the file (no public links are configured)
WriteF(r, oks) ==
  WriteCell(r, oks, "write_F", "link", "", "read_G")

\* lines 2204-2226: read G again and merge the wanted tokens into it
ReadG(r, oks) ==
  /\ run[r].pc = "read_G"
  /\ \E ok \in oks :
       LET e == run[r]
           currentG == safeStr(getCell(sheet, e.rowIndex0, "tokens"))
       IN  run' = [run EXCEPT ![r] =
             IF ~ok THEN LedgerThrow(e, TRUE)
             ELSE [e EXCEPT !.nextG = nextTokensOf(currentG, HashToken(e.hash), e.r2Key),
                            !.pc = "write_G"]]
  /\ Bookkeeping(r)
  /\ UNCHANGED <<sheet, incs, sentBy, customersCache>>

\* lines 2228-2236: G = nextG; H follows only for a finite score
WriteG(r, oks) ==
  WriteCell(r, oks, "write_G", "tokens", run[r].nextG,
            IF run[r].ai.score >= 0 THEN "write_H" ELSE "return")

\* lines 2237-2243: H = score
WriteH(r, oks) ==
  WriteCell(r, oks, "write_H", "lastScore", run[r].ai.score, "return")

AuditFailureEndsRun(r, oks) ==
  /\ run[r].pc = "audit"
  /\ \E ok \in oks :
       LET e == [run[r] EXCEPT !.audits = @ + 1, !.auditOk = ok]
       IN  run' = [run EXCEPT ![r] = IF ok THEN AfterAudit(e) ELSE ReturnOk(e)]
  /\ Bookkeeping(r)
  /\ UNCHANGED <<sheet, incs, sentBy, customersCache>>

\* lines 2499-2518: saveInboundDocToDb, which swallows its failure
Audit(r, oks) ==
  /\ run[r].pc = "audit"
  /\ \E ok \in oks :
       LET e == run[r]
       IN  run' = [run EXCEPT ![r] =
             AfterAudit([e EXCEPT !.audits = e.audits + 1, !.auditOk = ok])]
  /\ Bookkeeping(r)
  /\ UNCHANGED <<sheet, incs, sentBy, customersCache>>

SendRetrying(r, oks) ==
  /\ run[r].pc = "send"
  /\ \E ok \in oks :
       LET e == run[r]
           f == [e EXCEPT !.sendAttempts = e.sendAttempts + 1,
                          !.sent = IF ok THEN e.sent + 1 ELSE e.sent,
                          !.sentTo = e.toEmail]
       IN  /\ run' = [run EXCEPT ![r] =
                IF ok \/ f.sendAttempts >= 3 THEN ReturnOk(f) ELSE f]
           /\ sentBy' = IF ok THEN [sentBy EXCEPT ![e.hash] = sentBy[e.hash] + 1]
                        ELSE sentBy
  /\ Bookkeeping(r)
  /\ UNCHANGED <<sheet, incs, customersCache>>

\* line 2676: sendCustomerText, which swallows its failure
Send(r, oks) ==
  /\ run[r].pc = "send"
  /\ \E ok \in oks :
       LET e == run[r]
       IN  /\ run' = [run EXCEPT ![r] =
                ReturnOk([e EXCEPT !.sendAttempts = e.sendAttempts + 1,
                                   !.sent = IF ok THEN e.sent + 1 ELSE e.sent,
                                   !.sentTo = e.toEmail])]
           /\ sentBy' = IF ok THEN [sentBy EXCEPT ![e.hash] = sentBy[e.hash] + 1]
                        ELSE sentBy
  /\ Bookkeeping(r)
  /\ UNCHANGED <<sheet, incs, customersCache>>

\* ----------------------------------------------------------- inbound handlers
\* what the steps of a handler leave alone
PipelineUnchanged ==
  UNCHANGED <<customers, sheet, run, nStarted, applied, incs, sentBy, readFailedFor,
              customersCache, call, fetches>>

\* a handler takes the next request when the one before has its response
Arrives(n) ==
  /\ handler.pc \in {"idle", "responded"}
  /\ \A r \in Runs : ~Active(run[r])
  /\ nStarted + n <= MaxRuns

\* POST /webhooks/inbound-file, lines 3469-3486: up to the allowlist
InboundFile(reqs) ==
  \E req \in reqs :
    /\ Arrives(1)
    /\ LET toEmail == toLowerCase(trim(safeStr(req.toEmail)))
           original ==
             safeStr(IF req.originalname # <<>> THEN req.originalname ELSE UploadBin)
           safeName == normalizeUploadName(original)
           h == [IdleHandler EXCEPT
                   !.kind = "inbound-file", !.toEmail = toEmail,
                   !.files = IF req.file
                               THEN <<[id |-> 1, filename |-> req.originalname,
                                       name |-> safeName, url |-> TRUE,
                                       hash |-> req.hash]>>
                               ELSE <<>>]
       IN  handler' =
             IF ~req.file THEN Respond(h, 400, Body(FALSE, "no_file", "", <<>>, <<>>, <<>>))
             ELSE IF toEmail = <<>>
               THEN Respond(h, 400, Body(FALSE, "missing_toEmail", "", <<>>, <<>>, <<>>))
             ELSE IF ~isAllowedFileByName(safeName)
               THEN Respond([h EXCEPT !.checked = TRUE], 415,
                            unsupportedFileTypePayload(safeName))
             ELSE [h EXCEPT !.checked = TRUE, !.allowed = <<1>>, !.k = 1,
                            !.pc = "upload"]
    /\ PipelineUnchanged

\* POST /webhooks/inbound-r2, lines 3578-3601: up to the allowlist
InboundR2(reqs) ==
  \E req \in reqs :
    /\ Arrives(1)
    /\ LET key == safeStr(req.key)
           toEmail == toLowerCase(trim(safeStr(req.toEmail)))
           filename == stripStamp(safeBaseName(key))
           h == [IdleHandler EXCEPT
                   !.kind = "inbound-r2", !.toEmail = toEmail,
                   !.files = <<[id |-> 1, filename |-> safeBaseName(key),
                                name |-> filename, url |-> TRUE,
                                hash |-> req.hash]>>]
       IN  handler' =
             IF ~req.secretOk
               THEN Respond(h, 401, Body(FALSE, "unauthorized", "", <<>>, <<>>, <<>>))
             ELSE IF key = <<>>
               THEN Respond(h, 400, Body(FALSE, "missing_key", "", <<>>, <<>>, <<>>))
             ELSE IF toEmail = <<>>
               THEN Respond(h, 400, Body(FALSE, "missing_toEmail", "", <<>>, <<>>, <<>>))
             ELSE IF ~isAllowedFileByName(filename)
               THEN Respond([h EXCEPT !.checked = TRUE], 415,
                            unsupportedFileTypePayload(filename))
             ELSE [h EXCEPT !.checked = TRUE, !.allowed = <<1>>, !.k = 1,
                            !.pc = "download"]
    /\ PipelineUnchanged

\* the name the e-mail handler uses for an attachment
safeNameOf(att) ==
  normalizeUploadName(IF safeStr(att.filename) # <<>> THEN safeStr(att.filename)
                      ELSE AttachmentBin)

\* one entry of the e-mail handler's list processed
Processed(ok, id, error) == [ok |-> ok, id |-> id, error |-> error]

RECURSIVE Advance(_)
\* the loop over the allowed attachments, lines 2970-3035, from attachment k
\* to its next download, or to the response after the last one
Advance(h) ==
  IF h.k > Len(h.allowed)
    THEN Respond(h, 200, Body(TRUE, "", "", <<>>, <<>>, h.processed))
  ELSE IF ~h.files[h.allowed[h.k]].url
    THEN Advance([h EXCEPT
           !.processed = Append(@, Processed(FALSE, h.files[h.allowed[h.k]].id,
                                             "missing_download_url")),
           !.k = @ + 1])
  ELSE [h EXCEPT !.pc = "download"]

\* the loop goes on after attachment k, with its entry in the list
Continue(h, ok, error) ==
  Advance([h EXCEPT
    !.processed = Append(@, Processed(ok, h.files[h.allowed[h.k]].id, error)),
    !.k = @ + 1])

\* POST /webhooks/resend-inbound, lines 2812-2965 and 3037-3044: up to the
\* first download, or to the upload of the text body
ResendInbound(reqs) ==
  \E req \in reqs :
    /\ Arrives(IF req.atts = <<>> THEN 1 ELSE Len(req.atts))
    /\ LET toEmail == toLowerCase(safeStr(req.to))
           atts == req.atts
           g == guardOfMail(atts)
           onlyUnsupported ==
             /\ g.oversized # <<>>
             /\ \A j \in 1..Len(g.oversized) :
                  g.oversized[j].reason = "unsupported_file_type"
           h == [IdleHandler EXCEPT !.kind = "resend", !.toEmail = toEmail]
           ha == [h EXCEPT
                    !.checked = TRUE,
                    !.files = [i \in 1..Len(atts) |->
                                 [id |-> atts[i].id, filename |-> atts[i].filename,
                                  name |-> safeNameOf(atts[i]),
                                  url |-> atts[i].url, hash |-> atts[i].hash]],
                    !.oversized = g.oversized]
       IN  handler' =
             IF req.evt = "bad_signature"
               THEN Respond(h, 400, Body(FALSE, "invalid_webhook", "", <<>>, <<>>, <<>>))
             ELSE IF req.evt # "email.received"
               THEN Respond(h, 200, Body(TRUE, "", "ignored", <<>>, <<>>, <<>>))
             ELSE IF ~req.found
               THEN Respond(h, 200, Body(TRUE, "", "not_fetched", <<>>, <<>>, <<>>))
             ELSE IF toEmail = <<>>
               THEN Respond(h, 200, Body(TRUE, "", "missing_to", <<>>, <<>>, <<>>))
             ELSE IF atts # <<>>
               THEN IF g.allowed = <<>>
                      THEN IF onlyUnsupported
                             THEN Respond(ha, 415,
                                    Body(FALSE, "unsupported_file_type", "", <<>>,
                                         g.oversized, <<>>))
                             ELSE Respond(ha, 413,
                                    Body(FALSE, "attachments_blocked_by_size_guard",
                                         "", <<>>, g.oversized, <<>>))
                    ELSE Advance([ha EXCEPT
                           !.allowed = [j \in 1..Len(g.allowed) |-> g.allowed[j].id],
                           !.k = 1])
             ELSE IF ~req.text
               THEN Respond(h, 200, Body(TRUE, "", "no_text", <<>>, <<>>, <<>>))
             ELSE [h EXCEPT
                     !.checked = TRUE, !.textBody = TRUE,
                     !.files = <<[id |-> 1, filename |-> BodyName, name |-> BodyName,
                                  url |-> TRUE, hash |-> req.hash]>>,
                     !.allowed = <<1>>, !.k = 1, !.pc = "upload"]
    /\ PipelineUnchanged

\* the file the handler is working on
CurrentFile(h) == h.files[h.allowed[h.k]]

Called(h, op) == [h EXCEPT !.calls = @ \cup {<<CurrentFile(h).id, op>>}]

\* r2DownloadToBuffer (line 3603), which throws, and
\* downloadAttachmentToBuffer (line 2980), which gives null
Download(oks) ==
  /\ handler.pc = "download"
  /\ \E ok \in oks :
       LET h == Called(handler, "download")
       IN  handler' =
             IF h.kind = "inbound-r2"
               THEN IF ok THEN [h EXCEPT !.pc = "process"]
                    ELSE Respond(h, 500,
                           Body(FALSE, "inbound_r2_failed", "", <<>>, <<>>, <<>>))
             ELSE IF ok THEN [h EXCEPT !.pc = "upload"]
             ELSE Continue(h, FALSE, "download_failed")
  /\ PipelineUnchanged

\* r2UploadBuffer: lines 3507-3519, 3002-3013 and 3046
Upload(oks) ==
  /\ handler.pc = "upload"
  /\ \E ok \in oks :
       LET h == Called(handler, "upload")
       IN  handler' =
             IF ok THEN [h EXCEPT !.pc = "process"]
             ELSE IF h.kind = "inbound-file"
               THEN Respond(h, 500,
                      Body(FALSE, "r2_upload_failed", "", <<>>, <<>>, <<>>))
             ELSE IF h.textBody
               THEN Respond(h, 400,
                      Body(FALSE, "invalid_webhook", "", <<>>, <<>>, <<>>))
             ELSE Continue(h, FALSE, "r2_upload_failed")
  /\ PipelineUnchanged

\* extractTextFromBuffer, the classifier, and the call of processInboundDoc
Process(r) ==
  /\ handler.pc = "process"
  /\ Begin(r, Submission(DocOf(CurrentFile(handler).hash), handler.kind,
                         handler.toEmail))
  /\ handler' =
       [Called(Called(handler, "extract"), "processInboundDoc") EXCEPT
          !.pc = "await", !.slot = r]

\* processInboundDoc has returned: the response, or the next attachment
Return ==
  /\ handler.pc = "await"
  /\ run[handler.slot].pc = "done"
  /\ handler' =
       IF handler.kind = "resend" /\ ~handler.textBody
         THEN Continue(handler, TRUE, "")
         ELSE Respond(handler, 200, Body(TRUE, "", "", <<>>, <<>>, <<>>))
  /\ PipelineUnchanged

\* --------------------------------------------------- writers of the directory
\* bound: rows of the customer directory
MaxCustomers == 2

\* ADMIN_EMAIL, the operator's address
ADMIN_EMAIL == <<"o", "@", "d", "d">>

\* what the writers of the directory leave alone
RunsUnchanged ==
  UNCHANGED <<sheet, run, nStarted, applied, incs, sentBy, readFailedFor, handler,
              call, fetches>>

\* updateCustomerCellInMasterSheet (lines 1767-1809): the cell col of the first
\* row with this customerId gets the value
updateCustomerCell(rows, customerId, col, value) ==
  LET hits == {i \in 1..Len(rows) : rows[i].customerId = customerId}
  IN  IF hits = {} THEN rows
      ELSE [rows EXCEPT ![CHOOSE i \in hits : \A j \in hits : i <= j][col] = value]

\* POST /customers/setup: the row of a new tenant is appended (lines
\* 3223-3273), then invalidateCustomersCache()
CustomerSetup ==
  /\ Len(customers) < MaxCustomers
  /\ customers' =
       Append(customers,
              [customerId |-> "custB", intakeEmail |-> E_intakeB,
               adminEmail |-> ADMIN_EMAIL, status |-> S_trial,
               tallySheetId |-> "sheetB", stripeCustomerId |-> "",
               trialEndsAtISO |-> Days[3]])
  /\ customersCache' = NoCache
  /\ RunsUnchanged

\* events the payment provider sends to POST /webhooks/stripe
StripeEvents ==
  { [type |-> "checkout.session.completed", metaCustomerId |-> "custA",
     customer |-> "cus_A", status |-> <<>>],
    [type |-> "customer.subscription.updated", metaCustomerId |-> "",
     customer |-> "cus_A", status |-> S_past_due],
    [type |-> "customer.subscription.deleted", metaCustomerId |-> "custA",
     customer |-> "", status |-> S_canceled],
    [type |-> "customer.subscription.updated", metaCustomerId |-> "",
     customer |-> "cus_Z", status |-> S_unpaid],
    [type |-> "invoice.paid", metaCustomerId |-> "", customer |-> "cus_A",
     status |-> <<>>],
    [type |-> "invoice.payment_failed", metaCustomerId |-> "", customer |-> "cus_A",
     status |-> <<>>],
    [type |-> "charge.refunded", metaCustomerId |-> "", customer |-> "cus_A",
     status |-> <<>>] }

\* customers.find(c => safeStr(c.stripeCustomerId) === stripeCustomerId)
\* ?.customerId
customerIdByStripe(rows, stripeCustomerId) ==
  LET hits == {i \in 1..Len(rows) : rows[i].stripeCustomerId = stripeCustomerId}
  IN  IF hits = {} THEN ""
      ELSE rows[CHOOSE i \in hits : \A j \in hits : i <= j].customerId

\* the status a subscription event is mapped to (lines 3116-3120)
mappedStatus(status) ==
  IF status = S_active \/ status = S_trialing THEN S_active
  ELSE IF status = S_past_due THEN S_past_due
  ELSE IF status = S_canceled THEN S_canceled
  ELSE IF status = S_unpaid THEN S_unpaid
  ELSE S_billing_unknown

\* setStripeFieldsIfPossible (lines 3084-3088) and the status update after
\* it: the directory and the cache afterwards.  The subscription identifier
\* is a cell the rows of this model do not hold.
setFieldsThenStatus(rows, customerId, stripeCustomerId, status) ==
  LET withId == IF stripeCustomerId # ""
                  THEN updateCustomerCell(rows, customerId, "stripeCustomerId",
                                          stripeCustomerId)
                  ELSE rows
  IN  [rows |-> updateCustomerCell(withId, customerId, "status", status),
       cache |-> NoCache]

\* POST /webhooks/stripe with a verified event (lines 3073-3163), every call
\* succeeding
StripeWebhook(events) ==
  \E evt \in events, fresh \in Fresh :
    LET got == getCustomersCached(customersCache, customers, fresh, TRUE)
        found == customerIdByStripe(got.rows, evt.customer)
        after ==
          IF evt.type = "checkout.session.completed"
            THEN IF evt.metaCustomerId # ""
                   THEN setFieldsThenStatus(customers, evt.metaCustomerId,
                                            evt.customer, S_active)
                   ELSE [rows |-> customers, cache |-> customersCache]
          ELSE IF evt.type \in {"customer.subscription.created",
                                "customer.subscription.updated",
                                "customer.subscription.deleted"}
            THEN IF evt.metaCustomerId # ""
                   THEN setFieldsThenStatus(customers, evt.metaCustomerId,
                                            evt.customer, mappedStatus(evt.status))
                 ELSE IF evt.customer # "" /\ found # ""
                   THEN setFieldsThenStatus(customers, found, evt.customer,
                                            mappedStatus(evt.status))
                 ELSE IF evt.customer # ""
                   THEN [rows |-> customers, cache |-> got.cache]
                 ELSE [rows |-> customers, cache |-> customersCache]
          ELSE IF evt.type \in {"invoice.paid", "invoice.payment_failed"}
            THEN IF evt.customer # ""
                   THEN [rows |->
                           IF found # ""
                             THEN updateCustomerCell(
                                    customers, found, "status",
                                    IF evt.type = "invoice.paid" THEN S_active
                                    ELSE S_past_due)
                             ELSE customers,
                         cache |-> got.cache]
                   ELSE [rows |-> customers, cache |-> customersCache]
          ELSE [rows |-> customers, cache |-> customersCache]
    IN  /\ customers' = after.rows
        /\ customersCache' = after.cache
        /\ RunsUnchanged

\* the place of a day in Days, 0 for a cell that is no date
DayIndex(d) ==
  IF \E i \in 1..Len(Days) : Days[i] = d
    THEN CHOOSE i \in 1..Len(Days) : Days[i] = d
    ELSE 0

RECURSIVE enforceTrials(_, _)
\* runNightlyJob, lines 3649-3664: the status of every row read whose trial
\* has ended becomes trial_ended; rows is the directory being written, read
\* the rows still to visit
enforceTrials(rows, read) ==
  IF read = <<>> THEN rows
  ELSE LET c == Head(read)
           status == toLowerCase(c.status)
           isTrial == status = S_trial \/ status = S_trialing
           isEnded ==
             /\ DayIndex(c.trialEndsAtISO) # 0
             /\ isTrial
             /\ DayIndex(c.trialEndsAtISO) <= DayIndex(Today)
       IN  enforceTrials(
             IF isEnded
               THEN updateCustomerCell(rows, c.customerId, "status", S_trial_ended)
               ELSE rows,
             Tail(read))

\* runNightlyJob (lines 3632-3664): reads the directory sheet itself, not the
\* cache, and writes the statuses; the daily reports it then mails change
\* nothing the pipeline reads
NightlyJob ==
  /\ customers' = enforceTrials(customers, customers)
  /\ UNCHANGED customersCache
  /\ RunsUnchanged

\* ------------------------------------------------------------ pure functions
\* what a call of a pure function leaves alone
\* ----------------------------------------- getCustomersCached, step by step
\* ttlMs of getCustomersCached
ttlMs == 60000
\* bounds: steps of the clock, and invalidations, in one behaviour
MaxTicks == 2
MaxInvalidations == 1

FetchUnchanged ==
  UNCHANGED <<sheet, run, nStarted, applied, incs, sentBy, readFailedFor, handler,
              call>>

cacheHitInclusive(cache, now) == cache.held /\ now - cache.at <= ttlMs

\* line 1822: customersCache && now - customersCacheAt < ttlMs
cacheHit(cache, now) == cache.held /\ now - cache.at < ttlMs

\* time passes: one ms, or one ms less than the time to live
Tick ==
  /\ fetches.ticks < MaxTicks
  /\ \E d \in {1, ttlMs - 1} :
       fetches' = [fetches EXCEPT !.clock = @ + d, !.ticks = @ + 1]
  /\ UNCHANGED <<customers, customersCache>>
  /\ FetchUnchanged

\* lines 1820-1822: now = Date.now(); return the cache when held and fresh,
\* else start the read of the directory
CacheCallBegin(c) ==
  /\ fetches.calls[c].pc = "idle"
  /\ LET now == fetches.clock
         hit == cacheHit(customersCache, now)
     IN  fetches' = [fetches EXCEPT !.calls[c] =
           [pc |-> IF hit THEN "done" ELSE "reading", now |-> now, hit |-> hit,
            rows |-> IF hit THEN customersCache.rows ELSE <<>>,
            epoch |-> fetches.epoch]]
  /\ UNCHANGED <<customers, customersCache>>
  /\ FetchUnchanged

\* line 1823: readCustomersFromMasterSheet() gives the rows of the directory,
\* or throws
CacheRead(c, oks) ==
  /\ fetches.calls[c].pc = "reading"
  /\ \E ok \in oks :
       fetches' = [fetches EXCEPT !.calls[c] =
         IF ok THEN [@ EXCEPT !.pc = "storing", !.rows = customers]
         ELSE [@ EXCEPT !.pc = "failed"]]
  /\ UNCHANGED <<customers, customersCache>>
  /\ FetchUnchanged

\* lines 1823-1825: after the await, customersCache = the rows read,
\* customersCacheAt = now, and the rows are returned
CacheStore(c) ==
  /\ fetches.calls[c].pc = "storing"
  /\ customersCache' = [Cached(fetches.calls[c].rows) EXCEPT
                          !.at = fetches.calls[c].now,
                          !.epoch = fetches.calls[c].epoch]
  /\ fetches' = [fetches EXCEPT !.calls[c].pc = "done"]
  /\ UNCHANGED customers
  /\ FetchUnchanged

\* the caller has the result, or the exception
CacheCallEnd(c) ==
  /\ fetches.calls[c].pc \in {"done", "failed"}
  /\ fetches' = [fetches EXCEPT !.calls[c] = IdleFetch]
  /\ UNCHANGED <<customers, customersCache>>
  /\ FetchUnchanged

\* setStripeFieldsIfPossible (lines 3084-3088): the identifier cell is
\* written, then invalidateCustomersCache() (lines 1827-1830)
SetStripeFields ==
  /\ fetches.epoch < MaxInvalidations
  /\ \E id \in {"cus_A", "cus_B"} :
       customers' = updateCustomerCell(customers, "custA", "stripeCustomerId", id)
  /\ customersCache' = NoCache
  /\ fetches' = [fetches EXCEPT !.epoch = @ + 1]
  /\ FetchUnchanged

StateUnchanged ==
  UNCHANGED <<customers, sheet, run, nStarted, applied, incs, sentBy, readFailedFor,
              handler, customersCache, fetches>>

\* isProcessingAllowed(billingStatus)
CallIsProcessingAllowed ==
  /\ call.fn = "isProcessingAllowed" /\ ~call.done
  /\ call' = [call EXCEPT !.gate = isProcessingAllowed(call.status), !.done = TRUE]
  /\ StateUnchanged

\* classifyDocTypeFromText(extractedText)
CallClassifyDocTypeFromText ==
  /\ call.fn = "classifyDocTypeFromText" /\ ~call.done
  /\ call' = [call EXCEPT !.docType = classifyDocTypeFromText(call.text),
                          !.done = TRUE]
  /\ StateUnchanged

\* the customer resolution of processInboundDoc (lines 2359-2378) on the
\* directory rows it was given
CallResolve ==
  /\ call.fn = "resolve" /\ ~call.done
  /\ call' = [call EXCEPT
                !.match = matchOf(call.customers,
                                  toLowerCase(trim(safeStr(call.toEmail)))),
                !.done = TRUE]
  /\ StateUnchanged

\* the attachment guard of POST /webhooks/resend-inbound on the attachments
\* the mail service lists
CallGuardAttachments ==
  /\ call.fn = "guardAttachments" /\ ~call.done
  /\ call' = [call EXCEPT !.guard = guardOfMail(WithIds(call.atts)), !.done = TRUE]
  /\ StateUnchanged

\* -------------------------------------------------------------- specifications
\* every remote call succeeds or fails
Outcomes == BOOLEAN

\* in Spec every remote call succeeds
Succeeds == {TRUE}

\* Spec: runs of submissions to one tenant overlap, two at a time
Init == InitWith({S_trialing}, {<<>>, <<OldRow>>})

Next ==
  \E r \in Runs :
    \/ Start(r, OverlapSubmissions)
    \/ Resolve(r, Succeeds)
    \/ Rubric(r, Succeeds)
    \/ EnsureGet(r, Succeeds)
    \/ EnsureAppend(r, Succeeds)
    \/ EnsureReread(r, Succeeds)
    \/ TokenGet(r, Succeeds)
    \/ ScoreCall(r, {"score", "http_500"})
    \/ WriteB(r, Succeeds)
    \/ WriteC(r, Succeeds)
    \/ WriteD(r, Succeeds)
    \/ WriteE(r, Succeeds)
    \/ WriteF(r, Succeeds)
    \/ ReadG(r, Succeeds)
    \/ WriteG(r, Succeeds)
    \/ WriteH(r, Succeeds)
    \/ Audit(r, Succeeds)
    \/ Send(r, Succeeds)

Spec == Init /\ [][Next]_vars

\* SpecSeq: one run at a time, as retries and resubmissions arrive
InitSeq == InitWith(Statuses, {<<OldRow>>})

NextSeq ==
  \E r \in Runs :
    \/ StartSeq(r, Submissions)
    \/ Resolve(r, Outcomes)
    \/ Rubric(r, Outcomes)
    \/ EnsureGet(r, Outcomes)
    \/ EnsureAppend(r, Outcomes)
    \/ EnsureReread(r, Outcomes)
    \/ TokenGet(r, Outcomes)
    \/ ScoreCall(r, ScoreOutcomes)
    \/ WriteB(r, Outcomes)
    \/ WriteC(r, Outcomes)
    \/ WriteD(r, Outcomes)
    \/ WriteE(r, Outcomes)
    \/ WriteF(r, Outcomes)
    \/ ReadG(r, Outcomes)
    \/ WriteG(r, Outcomes)
    \/ WriteH(r, Outcomes)
    \/ Audit(r, Outcomes)
    \/ Send(r, Outcomes)

SpecSeq == InitSeq /\ [][NextSeq]_vars

\* SpecOne: one run of processInboundDoc, for every submission, billing
\* status and ledger, with every remote call failing or succeeding
OneLedgers == {<<>>, <<OldRow>>, <<OldRow, SeenRow>>, FullLedger}

InitOne == InitWith(Statuses, OneLedgers)

NextOne ==
  \E r \in Runs :
    \/ StartOnce(r, AllSubmissions)
    \/ Resolve(r, Outcomes)
    \/ Rubric(r, Outcomes)
    \/ EnsureGet(r, Outcomes)
    \/ EnsureAppend(r, Outcomes)
    \/ EnsureReread(r, Outcomes)
    \/ TokenGet(r, Outcomes)
    \/ ScoreCall(r, AllScoreOutcomes)
    \/ WriteB(r, Outcomes)
    \/ WriteC(r, Outcomes)
    \/ WriteD(r, Outcomes)
    \/ WriteE(r, Outcomes)
    \/ WriteF(r, Outcomes)
    \/ ReadG(r, Outcomes)
    \/ WriteG(r, Outcomes)
    \/ WriteH(r, Outcomes)
    \/ Audit(r, Outcomes)
    \/ Send(r, Outcomes)

SpecOne == InitOne /\ [][NextOne]_vars

\* SpecLedger: runs one after the other, no ledger call failing, on a ledger
\* that has no row for today yet
InitLedger == InitWith({S_trialing, S_past_due}, {<<>>, <<OldRow>>})

NextLedger ==
  \E r \in Runs :
    \/ StartSeq(r, Submissions)
    \/ Resolve(r, Outcomes)
    \/ Rubric(r, Outcomes)
    \/ EnsureGet(r, Succeeds)
    \/ EnsureAppend(r, Succeeds)
    \/ EnsureReread(r, Succeeds)
    \/ TokenGet(r, Succeeds)
    \/ ScoreCall(r, ScoreOutcomes)
    \/ WriteB(r, Succeeds)
    \/ WriteC(r, Succeeds)
    \/ WriteD(r, Succeeds)
    \/ WriteE(r, Succeeds)
    \/ WriteF(r, Succeeds)
    \/ ReadG(r, Succeeds)
    \/ WriteG(r, Succeeds)
    \/ WriteH(r, Succeeds)
    \/ Audit(r, Outcomes)
    \/ Send(r, Outcomes)

SpecLedger == InitLedger /\ [][NextLedger]_vars

\* SpecApply: the same, with tallyApply called with and without an r2Key
NextApply ==
  \E r \in Runs :
    \/ StartSeq(r, Submissions \cup KeylessSubmissions)
    \/ Resolve(r, Outcomes)
    \/ Rubric(r, Outcomes)
    \/ EnsureGet(r, Succeeds)
    \/ EnsureAppend(r, Succeeds)
    \/ EnsureReread(r, Succeeds)
    \/ TokenGet(r, Succeeds)
    \/ ScoreCall(r, ScoreOutcomes)
    \/ WriteB(r, Succeeds)
    \/ WriteC(r, Succeeds)
    \/ WriteD(r, Succeeds)
    \/ WriteE(r, Succeeds)
    \/ WriteF(r, Succeeds)
    \/ ReadG(r, Succeeds)
    \/ WriteG(r, Succeeds)
    \/ WriteH(r, Succeeds)
    \/ Audit(r, Outcomes)
    \/ Send(r, Outcomes)

SpecApply == InitLedger /\ [][NextApply]_vars

\* SpecCache: calls of getCustomersCached as time passes, overlapping each
\* other and the writes of the Stripe identifiers
InitCache == InitWith({S_active}, {<<>>})

NextCache ==
  \/ Tick
  \/ SetStripeFields
  \/ \E c \in FetchSlots :
       \/ CacheCallBegin(c)
       \/ CacheRead(c, Outcomes)
       \/ CacheStore(c)
       \/ CacheCallEnd(c)

SpecCache == InitCache /\ [][NextCache]_vars

\* SpecIntake: requests arrive at the three inbound handlers, one at a time
InitIntake == InitWith({S_trialing}, {<<>>})

NextIntake ==
  \/ InboundFile(FileRequests)
  \/ InboundR2(R2Requests)
  \/ ResendInbound(MailRequests)
  \/ Download(Outcomes)
  \/ Upload(Outcomes)
  \/ Return
  \/ \E r \in Runs :
       \/ Process(r)
       \/ Resolve(r, Succeeds)
       \/ Rubric(r, Succeeds)
       \/ EnsureGet(r, Succeeds)
       \/ EnsureAppend(r, Succeeds)
       \/ EnsureReread(r, Succeeds)
       \/ TokenGet(r, Succeeds)
       \/ ScoreCall(r, {"score"})
       \/ WriteB(r, Succeeds)
       \/ WriteC(r, Succeeds)
       \/ WriteD(r, Succeeds)
       \/ WriteE(r, Succeeds)
       \/ WriteF(r, Succeeds)
       \/ ReadG(r, Succeeds)
       \/ WriteG(r, Succeeds)
       \/ WriteH(r, Succeeds)
       \/ Audit(r, Succeeds)
       \/ Send(r, Succeeds)

SpecIntake == InitIntake /\ [][NextIntake]_vars

\* SpecBilling: the directory is written (setup, payment events, nightly
\* job) between runs of NON_RESUME documents of the tenant
InitBilling ==
  /\ call = NoCall
  /\ customers \in { <<[CustomerRow(st) EXCEPT !.trialEndsAtISO = d]>> :
                        st \in {S_trial, S_active}, d \in {Days[1], Days[3], ""} }
  /\ sheet = <<>>
  /\ run = [r \in Runs |-> IdleRun]
  /\ nStarted = 0
  /\ applied = {}
  /\ incs = [h \in Hashes |-> 0]
  /\ sentBy = [h \in Hashes |-> 0]
  /\ readFailedFor = {}
  /\ handler = IdleHandler
  /\ customersCache = NoCache
  /\ fetches = NoFetches

NextBilling ==
  \/ CustomerSetup
  \/ StripeWebhook(StripeEvents)
  \/ NightlyJob
  \/ \E r \in Runs :
       \/ StartSeq(r, {Submission(DocOf("h4"), "resend", E_intakeATyped)})
       \/ Resolve(r, Succeeds)
       \/ Rubric(r, Succeeds)
       \/ EnsureGet(r, Succeeds)
       \/ EnsureAppend(r, Succeeds)
       \/ EnsureReread(r, Succeeds)
       \/ WriteB(r, Succeeds)
       \/ WriteC(r, Succeeds)
       \/ WriteD(r, Succeeds)
       \/ Audit(r, Succeeds)

SpecBilling == InitBilling /\ [][NextBilling]_vars

\* SpecPure: one call of a pure function, for each of its inputs
InitPure ==
  /\ call \in Calls
  /\ customers = <<CustomerRow(S_trialing)>>
  /\ sheet = <<>>
  /\ run = [r \in Runs |-> IdleRun]
  /\ nStarted = 0
  /\ applied = {}
  /\ incs = [h \in Hashes |-> 0]
  /\ sentBy = [h \in Hashes |-> 0]
  /\ readFailedFor = {}
  /\ handler = IdleHandler
  /\ customersCache = NoCache
  /\ fetches = NoFetches

NextPure ==
  \/ CallIsProcessingAllowed
  \/ CallClassifyDocTypeFromText
  \/ CallResolve
  \/ CallGuardAttachments

SpecPure == InitPure /\ [][NextPure]_vars

\* ------------------------------------------------------------------ claims
BlockedStatuses == {S_trial_ended, S_past_due, S_canceled, S_unpaid}

Resolved(e) == e.match # NoMatch

\* C1: a run that resolves the tenant, for bytes whose apply was confirmed by
\* an earlier, completed run of the same day, and in which no ledger read
\* fails, writes no ledger cell, leaves the day's count as it found it, calls
\* no scorer and sends no mail.
C1_DuplicateHasNoEffect ==
  \A r \in Runs :
    LET e == run[r]
    IN  (e.pc \notin {"idle", "resolve"} /\ Resolved(e) /\ e.dupAtStart
           /\ ~e.readFailed)
          => /\ e.writes = 0
             /\ TodayCount(sheet) = e.countAtStart
             /\ e.scorerCalls = 0
             /\ e.sendAttempts = 0
             /\ e.sent = 0

C1_Witness ==
  \E r \in Runs :
    LET e == run[r]
    IN  /\ e.pc = "done" /\ e.dupAtStart /\ ~e.readFailed /\ Resolved(e)
        /\ e.docType = "RESUME" /\ ~e.blocked
        /\ e.tally.inc = "false"
        /\ TodayCount(sheet) = 1

\* C2: two overlapping runs for the same bytes, tenant and day raise the
\* day's count by at most one and send at most one notification.
C2_OverlapCountsOnce ==
  \A r1, r2 \in Runs :
    (/\ r1 # r2 /\ nStarted = 2
     /\ run[r1].overlapped /\ run[r2].overlapped
     /\ run[r1].hash = run[r2].hash)
      => /\ TodayCount(sheet) <= 1
         /\ sentBy[run[r1].hash] <= 1

\* C3: when no ledger read fails, whatever write or later step fails, the
\* count is incremented at most once for a content hash over all retries.
C3_OneIncrementPerHash ==
  \A h \in Hashes : h \notin readFailedFor => incs[h] <= 1

\* C4: a mail is sent only in a run whose ledger step returned a confirmed
\* increment.
C4_MailOnlyAfterIncrement ==
  \A r \in Runs :
    LET e == run[r]
    IN  (e.pc = "send" \/ e.sendAttempts > 0 \/ e.sent > 0)
          => (e.tally.result = "ok" /\ e.tally.inc = "true")

C4_Witness ==
  \E r \in Runs :
    /\ run[r].pc = "done" /\ run[r].sent = 1
    /\ run[r].tally.inc = "true"

\* C5: at most one notification is sent per content hash (one tenant, one
\* day), also when token reads fail.
C5_OneMailPerHash == \A h \in Hashes : sentBy[h] <= 1

\* C6: a run for a NON_RESUME document never reports or writes an increment
\* (the count it writes is the count it read), leaves the day's count as it
\* found it, calls no scorer and sends no mail, whatever the billing status.
C6_NonResumeInert ==
  \A r \in Runs :
    LET e == run[r]
    IN  (e.pc # "idle" /\ e.docType = "NON_RESUME")
          => /\ TodayCount(sheet) <= e.countAtStart
             /\ (e.pc = "write_B" => e.nextCount = e.currentCount)
             /\ e.tally.inc # "true"
             /\ e.shouldIncrement = FALSE
             /\ e.scorerCalls = 0
             /\ e.sendAttempts = 0
             /\ e.sent = 0

C6_Witness ==
  \E r \in Runs :
    LET e == run[r]
    IN  /\ e.pc = "done" /\ e.docType = "NON_RESUME" /\ Resolved(e) /\ ~e.blocked
        /\ e.tally.result = "ok" /\ e.writes >= 3
        /\ e.countAtStart = 1

\* C7: for a resolved tenant whose status is trial_ended, past_due, canceled
\* or unpaid a run calls no scorer, writes nothing to the ledger and sends no
\* mail, whatever the document's category.
C7_BlockedTenantInert ==
  \A r \in Runs :
    LET e == run[r]
    IN  (e.pc \notin {"idle", "resolve"} /\ Resolved(e)
           /\ toLowerCase(trim(e.match.status)) \in BlockedStatuses)
          => /\ e.scorerCalls = 0
             /\ e.writes = 0
             /\ TodayCount(sheet) = e.countAtStart
             /\ e.tally.inc # "true"
             /\ e.sendAttempts = 0

C7_Witness ==
  \E r \in Runs :
    LET e == run[r]
    IN  /\ e.pc = "done" /\ Resolved(e) /\ e.match.status = S_PastDueCell
        /\ e.docType = "RESUME" /\ e.audits = 1
        /\ e.tally.reason = "billing_block"

\* the name ends in .pdf, .txt or .docx (letter case and the blanks around
\* the name aside)
EndsWith(s, suffix) ==
  Len(s) >= Len(suffix) /\ SubSeq(s, Len(s) - Len(suffix) + 1, Len(s)) = suffix

NamedAllowed(name) ==
  \E x \in ALLOWED_EXTS : EndsWith(toLowerCase(trim(name)), <<".">> \o x)

\* the response names the file i as an unsupported file type
RejectedAsUnsupported(h, i) ==
  \/ h.body.error = "unsupported_file_type"
  \/ \E j \in 1..Len(h.body.blocked) :
       /\ h.body.blocked[j].id = h.files[i].id
       /\ h.body.blocked[j].reason = "unsupported_file_type"

\* C8: in each inbound handler a file whose name does not end in .pdf, .txt
\* or .docx is never uploaded, downloaded, extracted or handed to
\* processInboundDoc, and the response of a request that reached the file
\* checks carries an unsupported_file_type outcome for it.
C8_UnsupportedRejectedFirst ==
  \A i \in 1..Len(handler.files) :
    ~NamedAllowed(handler.files[i].filename)
      => /\ \A op \in Ops : <<handler.files[i].id, op>> \notin handler.calls
         /\ (handler.pc = "responded" /\ handler.checked)
              => RejectedAsUnsupported(handler, i)

\* C8, the ordering alone: no upload, download, extraction or pipeline call
\* is made for such a file (this part holds)
C8_NoCallForUnsupported ==
  \A i \in 1..Len(handler.files) :
    ~NamedAllowed(handler.files[i].filename)
      => \A op \in Ops : <<handler.files[i].id, op>> \notin handler.calls

\* C9: an allowed, resolved RESUME whose token is not yet recorded today is
\* counted, whatever the scoring stage gave, in a run without ledger failure.
C9_CountedWhateverTheScore ==
  \A r \in Runs :
    LET e == run[r]
    IN  (/\ e.pc = "done" /\ Resolved(e) /\ ~e.blocked /\ e.docType = "RESUME"
         /\ ~e.tokenAtStart
         /\ ~e.readFailed /\ ~e.applyFailed /\ ~e.checkFailed)
          => /\ e.tally.inc = "true"
             /\ TodayCount(sheet) = e.countAtStart + 1

C9_Witness ==
  \E r \in Runs :
    LET e == run[r]
    IN  /\ e.pc = "done" /\ e.ai.error = "ai_failed"
        /\ e.tally.inc = "true" /\ TodayCount(sheet) = e.countAtStart + 1

\* C10 as stated: a failed ledger call of ensure-row or apply anywhere in the
\* run gives tally_failed, no mail, and the audit insert is still attempted.
C10_AnyEnsureFailureIsTallyFailed ==
  \A r \in Runs :
    LET e == run[r]
    IN  (e.pc = "done" /\ (e.ensureFailed \/ e.applyFailed))
          => /\ e.tally = TallyFailed
             /\ e.sendAttempts = 0
             /\ e.audits = 1

\* C10, amended: a failed ledger call in tallyApply (its ensure-row, its
\* writes, its second read of the token cell) gives tally_failed, no mail,
\* and the audit insert is still attempted.
C10_ApplyFailureIsTallyFailed ==
  \A r \in Runs :
    LET e == run[r]
    IN  (e.applyFailed /\ e.pc \in {"audit", "send", "done"})
          => /\ e.tally = TallyFailed
             /\ e.sendAttempts = 0
             /\ e.pc # "send"
             /\ (e.pc = "done" => e.audits = 1)

C10_Witness ==
  \E r \in Runs :
    LET e == run[r]
    IN  /\ e.pc = "done" /\ e.applyFailed /\ e.writes >= 1
        /\ e.tally = TallyFailed /\ e.audits = 1 /\ e.sent = 0

\* C11: no run of processInboundDoc ends in an exception, and every run that
\* ends has returned a result with ok: true, whichever of the directory read,
\* rubric lookup, scorer, ledger calls, audit insert and mail send failed.
C11_NeverThrowsAlwaysOk ==
  \A r \in Runs :
    LET e == run[r]
    IN  /\ e.pc # "thrown"
        /\ (e.pc = "done" <=> e.result.returned)
        /\ (e.result.returned => e.result.ok)

C11_Witness ==
  \E r \in Runs :
    LET e == run[r]
    IN  /\ e.pc = "done" /\ e.result.ok
        /\ e.ai.error = "ai_failed" /\ ~e.auditOk
        /\ e.sendAttempts = 1 /\ e.sent = 0

\* C12: in every reachable state, overlapping submissions included, the
\* tenant's ledger has at most one row for a day.
C12_OneRowPerDay ==
  \A d \in {Days[i] : i \in 1..Len(Days)} :
    Cardinality({i \in 1..Len(sheet) : sheet[i].date = d}) <= 1

\* C13: no step of any run, RESUME or NON_RESUME, lowers the count cell of a
\* row of the tenant's ledger.
C13_CountNeverDecreases ==
  [][\A i \in 1..Len(sheet) : sheet'[i].count >= sheet[i].count]_vars

\* C14: isProcessingAllowed, letter case and surrounding blanks aside, allows
\* trial, trialing and active, blocks trial_ended, past_due, canceled and
\* unpaid with the status itself as the reason, and allows the empty status
\* and every other string.
C14_GateTable ==
  (call.fn = "isProcessingAllowed" /\ call.done)
    => LET w == toLowerCase(trim(call.status))
       IN  /\ (w \in {S_trial, S_trialing, S_active} => call.gate.allowed)
           /\ (w \in BlockedStatuses
                 => (~call.gate.allowed /\ call.gate.reason = w))
           /\ (w \notin BlockedStatuses => call.gate.allowed)

C14_Witness ==
  /\ call.fn = "isProcessingAllowed" /\ call.done
  /\ call.status = <<" ">> \o toUpperCase(S_trial_ended) \o <<" ">>
  /\ call.gate = [allowed |-> FALSE, reason |-> S_trial_ended]

\* the phrase k is in the text, letter case aside
Present(k, text) ==
  \E i \in 1..(Len(text) - Len(k) + 1) :
    \A j \in 1..Len(k) : LowerChar(text[i + j - 1]) = k[j]

NumberPresent(keys, text) ==
  Cardinality({j \in 1..Len(keys) : Present(keys[j], text)})

\* the category the decision rule of C15 gives a text
RuleOfC15(text) ==
  LET R == 3 * NumberPresent(resumeStrong, text) + NumberPresent(resumeWeak, text)
      N == 3 * NumberPresent(nonResumeStrong, text)
      letters ==
        Cardinality({i \in 1..Len(text) : LowerChar(text[i]) \in LowerLetters})
  IN  IF letters < 80 THEN "NON_RESUME"
      ELSE IF NumberPresent(resumeStrong, text) > 0 /\ N < R THEN "RESUME"
      ELSE IF R >= 3 /\ N <= R THEN "RESUME"
      ELSE "NON_RESUME"

\* C15: classifyDocTypeFromText gives NON_RESUME for a text with fewer than
\* 80 letters; otherwise RESUME if a strong indicator is present and N < R,
\* else RESUME if R >= 3 and N <= R, else NON_RESUME, with R = 3 x strong
\* indicators present + weak indicators present and N = 3 x non-resume
\* indicators present.
C15_ClassifierRule ==
  (call.fn = "classifyDocTypeFromText" /\ call.done)
    => call.docType = RuleOfC15(call.text)

\* a text of 80 letters or more with one strong and one non-resume indicator
\* (N = R = 3) is a RESUME
C15_Witness ==
  /\ call.fn = "classifyDocTypeFromText" /\ call.done
  /\ call.text = TextOf(74, {1, 7})
  /\ call.docType = "RESUME"

\* the intake address of a record equals the target, letter case and
\* surrounding blanks aside
SameAddress(intakeEmail, target) ==
  toLowerCase(trim(intakeEmail)) = toLowerCase(trim(target))

\* C16: for a target address, the resolution gives the last record in
\* directory order whose intake address equals it, letter case aside, and no
\* record when none does.
C16_LastMatchWins ==
  (call.fn = "resolve" /\ call.done /\ trim(call.toEmail) # <<>>)
    => LET hits == {i \in 1..Len(call.customers) :
                      SameAddress(call.customers[i].intakeEmail, call.toEmail)}
       IN  /\ (hits = {} => call.match = NoMatch)
           /\ \A i \in hits :
                (\A j \in hits : j <= i) => call.match = call.customers[i]

C16_Witness ==
  /\ call.fn = "resolve" /\ call.done
  /\ Len(call.customers) = 3
  /\ call.customers[1].customerId = "custA"
  /\ call.customers[2].customerId = "custA2"
  /\ call.customers[3].customerId = "custB"
  /\ call.toEmail = E_intakeATyped
  /\ call.match.customerId = "custA2"

\* C17: once an operation that writes the directory is over, the cache is
\* invalid: a cache that is held has the rows of the directory, and a run
\* whose directory read did not fail has seen the billing status the
\* directory had at its resolution.
C17_WriteInvalidatesCache ==
  /\ customersCache.held => customersCache.rows = customers
  /\ \A r \in Runs :
       LET e == run[r]
       IN  (e.pc \notin {"idle", "resolve"} /\ ~e.resolveFailed)
             => e.match.status = e.directoryStatus

\* C18: a run makes at most one send attempt; a run that ends with a
\* confirmed increment has made exactly one; a failed attempt is followed by
\* no other and the run still returns ok: true.
C18_OneSendAttempt ==
  \A r \in Runs :
    LET e == run[r]
    IN  /\ e.sendAttempts <= 1
        /\ (e.pc = "done" /\ e.tally.inc = "true")
              => (e.sendAttempts = 1 /\ e.result.ok)
        /\ (e.sendAttempts = 1 /\ e.sent = 0) => (e.pc = "done" /\ e.result.ok)

C18_Witness ==
  \E r \in Runs :
    LET e == run[r]
    IN  /\ e.pc = "done" /\ e.tally.inc = "true" /\ e.ai.score >= 0
        /\ e.sendAttempts = 1 /\ e.sent = 0 /\ e.result.ok

\* C19: the mail of a run is the scored-result message exactly when the
\* scorer's result has a numeric score, and a receipt in every other case.
C19_ScoredIffNumericScore ==
  \A r \in Runs :
    LET e == run[r]
    IN  e.sendAttempts > 0
          => /\ e.mailKind \in {"scored", "receipt"}
             /\ (e.mailKind = "scored" <=> e.ai.score >= 0)

\* C20: every notification goes to the report address of the resolved
\* tenant's record.
C20_MailToReportAddress ==
  \A r \in Runs :
    LET e == run[r]
    IN  e.sendAttempts > 0 => e.sentTo = safeStr(e.match.adminEmail)

\* C21: the scoring call never throws out of the run.  An upstream 429 gives
\* quota_exceeded, a 401 bad_api_key, any other upstream error openai_error,
\* an answer that is not JSON parse_failed with the answer's text, and an
\* exception in the scoring stage ai_failed.
C21_ScoringFailuresAreTagged ==
  \A r \in Runs :
    LET e == run[r]
    IN  /\ e.pc # "thrown"
        /\ e.scorerCalls > 0 =>
              /\ e.upstream = "http_429" => e.ai.error = "quota_exceeded"
              /\ e.upstream = "http_401" => e.ai.error = "bad_api_key"
              /\ e.upstream = "http_500" => e.ai.error = "openai_error"
              /\ e.upstream = "bad_json" =>
                    e.ai.error = "parse_failed" /\ e.ai.raw = "Score: 70"
              /\ e.upstream = "throw" => e.ai.error = "ai_failed"
              /\ e.upstream \in {"score", "no_score"} => e.ai.error = ""

C21_Witness ==
  \E r \in Runs :
    LET e == run[r]
    IN  /\ e.pc = "done" /\ e.result.ok /\ e.scorerCalls = 1
        /\ e.upstream = "http_401" /\ e.ai.error = "bad_api_key"

\* C22: a text longer than MAX_OPENAI_CHARS is never given to the scorer, in
\* whole or as a prefix: the outcome is a too_large skip.
C22_NoTruncatedScoring ==
  \A r \in Runs :
    LET e == run[r]
    IN  /\ e.scorerCalls > 0 => e.forAiLen = e.len
        /\ (e.len > MAX_OPENAI_CHARS /\ e.pc \in {"audit", "send", "done"}
              /\ Resolved(e) /\ ~e.blocked /\ ~e.dupAtStart /\ ~e.tokenAtStart)
             => e.scorerCalls = 0 /\ e.ai = AiSkip("too_large")

\* the scoring stage of the run is over
PastScoring(e) == e.pc \in {"audit", "send", "done"} \/ e.stage = "tally"

\* C23: for an allowed, resolved RESUME not yet seen today, a text of exactly
\* 120 characters is scored, and a text of 119 characters is a too_short skip
\* without a scorer call.
C23_ScoringLengthBoundary ==
  \A r \in Runs :
    LET e == run[r]
    IN  (PastScoring(e) /\ Resolved(e) /\ ~e.blocked /\ e.docType = "RESUME"
           /\ ~e.tokenAtStart)
          => /\ e.len = MinScoreLen => e.scorerCalls = 1 /\ ~e.ai.skipped
             /\ e.len = MinScoreLen - 1 =>
                   e.scorerCalls = 0 /\ e.ai = AiSkip("too_short")

C23_Witness ==
  \E r \in Runs :
    LET e == run[r]
    IN  /\ e.pc = "done" /\ Resolved(e) /\ ~e.blocked /\ ~e.tokenAtStart
        /\ e.len = MinScoreLen /\ e.scorerCalls = 1 /\ e.ai.score >= 0

\* the result mail is due: the eligibility of lines 2566-2576
MailDue(e) ==
  /\ e.tally.inc = "true"
  /\ e.toEmail # <<>> /\ Resolved(e) /\ ~e.blocked /\ e.docType = "RESUME"

\* C24: every run makes exactly one audit insert attempt, whatever its
\* path, and a failing insert changes neither the result nor the mail.
C24_OneAuditAttempt ==
  \A r \in Runs :
    LET e == run[r]
    IN  /\ e.audits <= 1
        /\ e.pc \in {"send", "done"} =>
              /\ e.audits = 1
              /\ (e.mailKind # "") <=> MailDue(e)
        /\ e.pc = "done" => e.result.ok /\ (e.sendAttempts = 1 <=> MailDue(e))

C24_Witness ==
  \E r \in Runs :
    LET e == run[r]
    IN  /\ e.pc = "done" /\ e.audits = 1 /\ ~e.auditOk
        /\ e.result.ok /\ e.sendAttempts = 1 /\ e.sent = 1

\* C25: a run whose directory read failed or whose address matches no record
\* goes on unresolved: no ledger call, no mail, and ok: true.
C25_UnresolvedRunIsInert ==
  \A r \in Runs :
    LET e == run[r]
    IN  (e.pc \notin {"idle", "resolve"} /\ ~Resolved(e))
          => /\ e.pc \in {"score", "audit", "done"}
             /\ e.stage = "" /\ e.writes = 0
             /\ e.tally = NullTally
             /\ e.sendAttempts = 0 /\ e.mailKind = ""
             /\ e.pc = "done" => e.result.ok

C25_Witness ==
  \E r \in Runs :
    LET e == run[r]
    IN  /\ e.pc = "done" /\ e.resolveFailed /\ ~Resolved(e)
        /\ e.docType = "RESUME" /\ e.scorerCalls = 1 /\ e.result.ok

\* C26: when the token read of tallyApply fails for a RESUME, tallyApply
\* goes on as for a new document: it writes count = current + 1 and returns
\* a confirmed increment.
C26_TokenReadFailureCounts ==
  \A r \in Runs :
    LET e == run[r]
    IN  e.tokenReadFailed
          => /\ e.docType = "RESUME"
             /\ e.stage = "tally" =>
                   e.shouldIncrement /\ e.nextCount = e.currentCount + 1
             /\ (e.pc \in {"audit", "send", "done"} /\ ~e.applyFailed)
                   => e.tally.result = "ok" /\ e.tally.inc = "true"

C26_Witness ==
  \E r \in Runs :
    LET e == run[r]
    IN  /\ e.pc = "done" /\ e.tokenReadFailed /\ e.tokenAtStart
        /\ e.tally.inc = "true" /\ e.tally.nextCount = e.countAtStart + 1
        /\ TodayCount(sheet) = e.countAtStart + 1

\* two finished runs that both report a confirmed increment, for distinct
\* RESUME documents
BothCounted(r1, r2) ==
  /\ r1 # r2
  /\ run[r1].hash # run[r2].hash
  /\ \A r \in {r1, r2} :
       /\ run[r].pc = "done" /\ run[r].docType = "RESUME"
       /\ run[r].tally.result = "ok" /\ run[r].tally.inc = "true"

\* C27: two overlapping submissions of distinct RESUME documents can both
\* read count N and both write N + 1.  Each of two counted runs has written
\* a count above the one it read, and the day's count is the value one of
\* them wrote, not their sum.
C27_CountIsOneOfTheWrites ==
  \A r1, r2 \in Runs :
    BothCounted(r1, r2)
      => /\ run[r1].tally.nextCount >= 1 /\ run[r2].tally.nextCount >= 1
         /\ TodayCount(sheet) \in {run[r1].tally.nextCount, run[r2].tally.nextCount}

\* both runs report a confirmed increment and the count rose by one only
C27_Witness ==
  \E r1, r2 \in Runs :
    /\ BothCounted(r1, r2)
    /\ run[r1].countAtStart = run[r2].countAtStart
    /\ run[r1].tally.nextCount = run[r1].countAtStart + 1
    /\ run[r2].tally.nextCount = run[r2].countAtStart + 1
    /\ TodayCount(sheet) = run[r1].countAtStart + 1

\* the run holds a row position that ensureTodayTallyRow returned
HoldsRow(e) ==
  e.pc \in {"token_get", "write_B", "write_C", "write_D", "write_E", "write_F",
            "read_G", "write_G", "write_H"}

\* C28: the position ensureTodayTallyRow returns is that of a row dated
\* today, so every later read and write of the run is on today's row.
C28_EnsureReturnsTodaysRow ==
  \A r \in Runs :
    LET e == run[r]
    IN  HoldsRow(e)
          => /\ e.rowIndex0 + 1 \in 1..Len(sheet)
             /\ sheet[e.rowIndex0 + 1].date = Today

\* C29: no write removes a token of a day's row: the token set of today's
\* row holds the hash token and the storage-pointer token of every RESUME
\* whose apply has succeeded.
C29_TokensAreKept ==
  \A r \in Runs :
    LET e == run[r]
    IN  (e.pc \in {"audit", "send", "done"} /\ e.docType = "RESUME"
           /\ e.tally.result = "ok" /\ e.tally.inc = "true")
          => /\ includes(TodayTokens(sheet), HashToken(e.hash))
             /\ includes(TodayTokens(sheet), R2Token(e.r2Key))

\* the cells of a row that a NON_RESUME apply leaves alone
SameRecordCells(old, new) ==
  /\ new.r2Key = old.r2Key /\ new.link = old.link
  /\ new.tokens = old.tokens /\ new.lastScore = old.lastScore

\* C30: tallyApply for a NON_RESUME ensures the day's row, writes the count
\* it read and the notes with the category note, and leaves the
\* storage-pointer, file-link, token and last-score cells of every row as
\* they are; it returns shouldIncrement: false.
C30_NonResumeApplyFrame ==
  [][\A r \in Runs :
       (run[r].docType = "NON_RESUME" /\ run[r].stage = "tally")
         => /\ run[r].pc = "write_B" => run[r].nextCount = run[r].currentCount
            /\ run[r].pc \in {"write_C", "write_D"} =>
                  includes(parseCsv(run[r].nextNotes),
                           Note(run[r].source, "NON_RESUME"))
            /\ \A i \in 1..Len(sheet) :
                  /\ SameRecordCells(sheet[i], sheet'[i])
                  /\ sheet'[i].count \in {sheet[i].count, run[r].currentCount}
            /\ Len(sheet') > Len(sheet) =>
                  sheet' = Append(sheet, NewRow(Today, customerIdOf(run[r])))
            /\ (run'[r].pc = "audit" /\ ~run'[r].applyFailed) =>
                  run'[r].tally = TallyOk(FALSE, run[r].nextCount)]_vars

C30_Witness ==
  \E r \in Runs :
    LET e == run[r]
    IN  /\ e.pc = "done" /\ e.docType = "NON_RESUME"
        /\ e.tally = TallyOk(FALSE, SeenRow.count) /\ e.writes = 3
        /\ Len(sheet) = 2
        /\ sheet[2].count = SeenRow.count
        /\ SameRecordCells(SeenRow, sheet[2])
        /\ sheet[2].notes # SeenRow.notes
        /\ includes(parseCsv(sheet[2].notes), Note(e.source, "NON_RESUME"))

\* C31: the notes of a row are append-only and deduplicated: a write of the
\* notes cell keeps every note the cell held, and writes the cell as it was
\* when the note applied is already in it.
C31_NotesAppendOnly ==
  [][\A r \in Runs :
       (run[r].pc = "write_C" /\ run'[r].pc = "write_D")
         => \A i \in 1..Len(sheet) :
              LET before == parseCsv(sheet[i].notes)
                  after == parseCsv(sheet'[i].notes)
                  note == Note(run[r].source, run[r].docType)
              IN  /\ \A k \in 1..Len(before) : includes(after, before[k])
                  /\ includes(before, note) => sheet'[i].notes = sheet[i].notes]_vars

RECURSIVE SumSizes(_)
SumSizes(atts) == IF atts = <<>> THEN 0 ELSE Head(atts).size + SumSizes(Tail(atts))

\* C32: the attachments of an inbound e-mail accepted for download are at
\* most MAX_ATTACHMENTS, each of a declared size above 0 and at most
\* MAX_ATTACHMENT_BYTES, with sizes summing to at most MAX_TOTAL_ATTACH_BYTES;
\* an attachment beyond one of these caps is not among them.
C32_AcceptedWithinCaps ==
  (call.fn = "guardAttachments" /\ call.done)
    => LET accepted == call.guard.allowed
           ids == {accepted[j].id : j \in 1..Len(accepted)}
       IN  /\ Len(accepted) <= MAX_ATTACHMENTS
           /\ Cardinality(ids) = Len(accepted)
           /\ \A j \in 1..Len(accepted) :
                /\ accepted[j].id \in 1..Len(call.atts)
                /\ accepted[j].size = call.atts[accepted[j].id].size
                /\ accepted[j].size > 0
                /\ accepted[j].size <= MAX_ATTACHMENT_BYTES
           /\ SumSizes(accepted) <= MAX_TOTAL_ATTACH_BYTES
           /\ \A i \in 1..Len(call.atts) :
                (i > MAX_ATTACHMENTS \/ call.atts[i].size <= 0
                   \/ call.atts[i].size > MAX_ATTACHMENT_BYTES) => i \notin ids

\* an e-mail with more than MAX_ATTACHMENTS attachments, one of them refused
\* for the total
C32_Witness ==
  /\ call.fn = "guardAttachments" /\ call.done
  /\ Len(call.atts) > MAX_ATTACHMENTS
  /\ Len(call.guard.allowed) = MAX_ATTACHMENTS - 1
  /\ \E j \in 1..Len(call.guard.oversized) :
       call.guard.oversized[j].reason = "total_attachments_too_large"
  /\ SumSizes(call.guard.allowed) > MAX_TOTAL_ATTACH_BYTES - MAX_ATTACHMENT_BYTES

\* C33: getCustomersCached returns the cached rows without a read exactly
\* when rows are cached and stamped less than ttlMs ago; otherwise it reads
\* the directory and stores the rows with the stamp of the call; a failed
\* read leaves the cache and its stamp as they are.
C33_CacheTimeToLive ==
  [][\A c \in FetchSlots :
       LET f == fetches.calls[c]
           g == fetches'.calls[c]
           fresh == customersCache.held
                      /\ fetches.clock - customersCache.at < ttlMs
       IN  /\ (f.pc = "idle" /\ g.pc # "idle")
                => /\ customersCache' = customersCache
                   /\ fresh => g.pc = "done" /\ g.rows = customersCache.rows
                   /\ ~fresh => g.pc = "reading"
           /\ (f.pc = "reading" /\ g.pc = "failed")
                => customersCache' = customersCache
           /\ (f.pc = "reading" /\ g.pc = "storing") => g.rows = customers
           /\ (f.pc = "storing" /\ g.pc = "done")
                => /\ customersCache'.held
                   /\ customersCache'.rows = f.rows
                   /\ customersCache'.at = f.now]_vars

\* a call one ms before the time to live is over returned the cached rows,
\* and a call at the time to live is reading
C33_Witness ==
  \E c, d \in FetchSlots :
    /\ fetches.calls[c].pc = "done" /\ fetches.calls[c].hit
    /\ fetches.calls[c].now - customersCache.at = ttlMs - 1
    /\ fetches.calls[d].pc = "reading" /\ customersCache.held
    /\ fetches.calls[d].now - customersCache.at = ttlMs

\* C34: after invalidateCustomersCache the cache is never filled with rows
\* whose read began before the invalidation.
C34_NoStaleRepopulation ==
  customersCache.held => customersCache.epoch = fetches.epoch

\* C37: the scorer is never called for a document whose intake address
\* resolves to no tenant.
C37_NoScoringWithoutTenant ==
  \A r \in Runs :
    LET e == run[r]
    IN  (e.pc \notin {"idle", "resolve"} /\ ~e.resolveFailed /\ ~Resolved(e))
          => e.scorerCalls = 0

\* the resume score and the non-resume score of a text
ResumeScore(text) ==
  3 * NumberPresent(resumeStrong, text) + NumberPresent(resumeWeak, text)

NonResumeScore(text) == 3 * NumberPresent(nonResumeStrong, text)

LettersOf(text) ==
  Cardinality({i \in 1..Len(text) : LowerChar(text[i]) \in LowerLetters})

\* C38: for a text of 80 letters or more, classifyDocTypeFromText gives
\* RESUME exactly when the resume score is at least 3 and the non-resume
\* score does not exceed it: the rule of the strong indicator changes no
\* outcome of the rules that follow it.
C38_StrongRuleIsRedundant ==
  (call.fn = "classifyDocTypeFromText" /\ call.done
     /\ LettersOf(call.text) >= MinLetters)
    => (call.docType = "RESUME"
          <=> (ResumeScore(call.text) >= 3
                 /\ NonResumeScore(call.text) <= ResumeScore(call.text)))

\* a strong indicator with a larger non-resume score: NON_RESUME; and the
\* state is one where the strong indicator is present
C38_Witness ==
  /\ call.fn = "classifyDocTypeFromText" /\ call.done
  /\ LettersOf(call.text) >= MinLetters
  /\ NumberPresent(resumeStrong, call.text) = 1
  /\ NonResumeScore(call.text) = 6 /\ ResumeScore(call.text) = 4
  /\ call.docType = "NON_RESUME"

HashTokensOf(rows) ==
  {TodayTokens(rows)[i] : i \in {j \in DOMAIN TodayTokens(rows) :
                                   TodayTokens(rows)[j][1] = "hash"}}

\* C36: when the runs of a tenant and day do not overlap and no ledger call
\* fails, from a row appended by the first of them, after each run the count
\* of the day is the number of distinct hash tokens in the token set of the
\* row.
C36_CountIsTokenCount ==
  (\A r \in Runs : ~Active(run[r]))
    => TodayCount(sheet) = Cardinality(HashTokensOf(sheet))

\* two distinct documents were counted one after the other: the row holds
\* two hash tokens and the count 2
C36_Witness ==
  /\ \A r \in Runs : ~Active(run[r])
  /\ nStarted = 2
  /\ TodayCount(sheet) = 2
  /\ Cardinality(HashTokensOf(sheet)) = 2

====
